---- MODULE Spec2Model ----
(***************************************************************************)
(* Account management of kiro-manager-wb (accounts.ts): the account token  *)
(* files, the active Kiro token file with its client companion, the        *)
(* machine-id file, the usage statistics and the usage cache, and the      *)
(* operations switchToAccount, refreshAccountToken, checkAccountHealth,    *)
(* deleteAccount, loadSingleAccountUsage and loadAccounts.                 *)
(*                                                                         *)
(* JavaScript runs each handler to its next await without interruption, so *)
(* one action is the code between two network awaits.  Fields of a token   *)
(* file that no operation changes (region, authMethod, provider) and the   *)
(* lastUsed / client expiresAt timestamps are left out.                    *)
(***************************************************************************)
EXTENDS Integers, Sequences, FiniteSets, TLC

\* ------------------------------------------------------------------------
\* Bounds of the model
\* ------------------------------------------------------------------------
\* how many operations (switch, refresh, health check) are started
MaxCalls == 2
\* how many seconds the clock advances
MaxTicks == 1

\* ------------------------------------------------------------------------
\* Program constants
\* ------------------------------------------------------------------------
AUTH_TOKEN_INVALIDATION_OFFSET_SECONDS == 180
DefaultExpiresIn == 3600
DefaultUsageLimit == 500
UnknownUsage == -1

\* JavaScript's undefined / null, an absent field and an absent file.  An
\* optional number n is held as <<n>>, an absent string-valued code as "".
Null == <<>>

\* ------------------------------------------------------------------------
\* Names.  A string is a sequence of characters so that String.includes and
\* localeCompare are computed, not assumed.
\* ------------------------------------------------------------------------
NameA == <<"a">>
NameAB == <<"a", "b">>
NameC == <<"c">>
AccountNames == {NameA, NameAB}
CallNames == {NameA, NameAB, NameC}

\* the name of the token file of an account: token-<name>.json
FileOf(name) == <<"t", "o", "k", "e", "n", "-">> \o name \o <<".", "j", "s", "o", "n">>
Files == {FileOf(n) : n \in AccountNames}

\* String.prototype.includes
Includes(hay, needle) ==
    \E i \in 1..(Len(hay) - Len(needle) + 1) :
        SubSeq(hay, i, i + Len(needle) - 1) = needle

\* code-unit order of the characters used in account names
CharOrd(c) == CASE c = "a" -> 1 [] c = "b" -> 2 [] c = "c" -> 3 [] OTHER -> 0

\* String.prototype.localeCompare on account names: -1, 0 or 1
RECURSIVE LocaleCompare(_, _)
LocaleCompare(s, t) ==
    IF s = <<>> /\ t = <<>> THEN 0
    ELSE IF s = <<>> THEN -1
    ELSE IF t = <<>> THEN 1
    ELSE IF CharOrd(Head(s)) < CharOrd(Head(t)) THEN -1
    ELSE IF CharOrd(Head(s)) > CharOrd(Head(t)) THEN 1
    ELSE LocaleCompare(Tail(s), Tail(t))

\* crypto.createHash('sha1').update(clientId).digest('hex')
GenerateClientIdHash(clientId) == <<"sha1", clientId>>

\* ------------------------------------------------------------------------
\* State
\* ------------------------------------------------------------------------
VARIABLES
    files,          \* token file name -> TokenData record, or Null when absent
    kiroToken,      \* the active Kiro auth token file (ActiveSession), or Null
    clientFiles,    \* clientIdHash -> client registration companion file
    backups,        \* timestamp -> backup copy of the Kiro auth token file
    machineIdFile,  \* machine-id.txt (DeviceIdentity), or Null
    usageStats,     \* account name -> switch count
    usageCache,     \* account name -> cached usage entry, or Null
    now,            \* Date.now() in seconds
    ncalls,         \* number of operations started so far
    calls,          \* in-flight operation of each caller
    secrets,        \* SecretStorage: account name -> stored secrets, or Null
    useSecretStorage \* the setting kiroAccountSwitcher.useSecretStorage

\* the state of secretStorage.ts
secretVars == <<secrets, useSecretStorage>>

vars == <<files, kiroToken, clientFiles, backups, machineIdFile, usageStats,
          usageCache, now, ncalls, calls, secretVars>>

ClientIdOf(name) == <<"cid", name>>
SecretOf(name) == <<"sec", name>>

\* how an imported account may lack refresh credentials
CredKinds == {"full", "noRefreshToken", "noClientId", "noClientSecret"}

\* the clock starts when the imported tokens, which expired at 0, are at the
\* end of their invalidation offset
StartTime == AUTH_TOKEN_INVALIDATION_OFFSET_SECONDS

\* an imported account: how it lacks credentials, and its expiresAt
InitProfiles ==
    {<<k, <<0>>>> : k \in CredKinds} \cup {<<"full", Null>>}

\* the token file of an imported account
InitToken(name, kind, exp) ==
    [ accountName  |-> name,
      accessToken  |-> <<"at", name, 0>>,
      refreshToken |-> IF kind = "noRefreshToken" THEN Null ELSE <<"rt", name, 0>>,
      expiresAt    |-> exp,
      expiresIn    |-> Null,
      clientId     |-> IF kind = "noClientId" THEN Null ELSE ClientIdOf(name),
      clientSecret |-> IF kind = "noClientSecret" THEN Null ELSE SecretOf(name),
      machineId    |-> Null ]

\* the callers of the operations (the extension host runs one at a time)
Callers == {1}

IdleCall == [ op |-> "none", pc |-> "idle", id |-> 0, exit |-> "" ]

Init ==
    /\ \E prof \in InitProfiles :
          files = [ f \in Files |->
                      IF f = FileOf(NameA) THEN InitToken(NameA, prof[1], prof[2])
                      ELSE InitToken(NameAB, "full", <<0>>) ]
    /\ kiroToken = Null
    /\ clientFiles = [ h \in {GenerateClientIdHash(ClientIdOf(n)) : n \in AccountNames} |-> Null ]
    /\ backups = {}
    /\ machineIdFile = Null
    /\ usageStats = [ n \in AccountNames |-> 0 ]
    /\ usageCache = [ n \in AccountNames |-> Null ]
    /\ now = StartTime
    /\ secrets = [ n \in AccountNames |-> Null ]
    /\ useSecretStorage = FALSE
    /\ ncalls = 0
    /\ calls = [ p \in Callers |-> IdleCall ]

\* ------------------------------------------------------------------------
\* Token checks
\* ------------------------------------------------------------------------
\* the token counts as invalid from the last second of the offset on
IsTokenTrulyInvalid_AtOffset(td, t) ==
    IF td.expiresAt = Null THEN TRUE
    ELSE t >= td.expiresAt[1] + AUTH_TOKEN_INVALIDATION_OFFSET_SECONDS

\* isTokenTrulyInvalid: expired more than the invalidation offset ago
IsTokenTrulyInvalid(td, t) ==
    IF td.expiresAt = Null THEN TRUE
    ELSE t > td.expiresAt[1] + AUTH_TOKEN_INVALIDATION_OFFSET_SECONDS

\* the refresh token is not asked for
HasCredentials_NoRefreshTokenCheck(td) ==
    td.clientId # Null /\ td.clientSecret # Null

\* the client secret is not asked for
HasCredentials_NoSecretCheck(td) ==
    td.clientId # Null /\ td.refreshToken # Null

\* !!(_clientId && _clientSecret && refreshToken)
HasCredentials(td) ==
    td.clientId # Null /\ td.clientSecret # Null /\ td.refreshToken # Null

\* ------------------------------------------------------------------------
\* loadAccounts and the lookup of an account by name
\* ------------------------------------------------------------------------
\* getCurrentToken()?.refreshToken
CurrentRefreshToken == IF kiroToken = Null THEN Null ELSE kiroToken.refreshToken

\* isActive of loadAccounts
IsActive(td) == CurrentRefreshToken = td.refreshToken

ExistingFiles == {f \in Files : files[f] # Null}

\* the comparator of accounts.sort
SortCompare(a, b) ==
    IF IsActive(files[a]) THEN -1
    ELSE IF IsActive(files[b]) THEN 1
    ELSE LocaleCompare(files[a].accountName, files[b].accountName)

\* the orders in which loadAccounts may return the accounts: every
\* arrangement of the existing files that the comparator accepts (two
\* accounts the comparator cannot tell apart come in either order)
LoadAccounts ==
    LET n == Cardinality(ExistingFiles)
    IN  { s \in [1..n -> ExistingFiles] :
            /\ \A i, j \in 1..n : i # j => s[i] # s[j]
            /\ \A i, j \in 1..n : i < j => SortCompare(s[i], s[j]) <= 0 }

\* a.tokenData.accountName === accountName || a.filename.includes(accountName)
Matches(f, name) == files[f].accountName = name \/ Includes(f, name)

\* accounts.find(...): the file of the first match, or Null
FindAccount(accounts, name) ==
    LET hits == {i \in 1..Len(accounts) : Matches(accounts[i], name)}
    IN  IF hits = {} THEN Null
        ELSE accounts[CHOOSE i \in hits : \A j \in hits : i <= j]

\* ------------------------------------------------------------------------
\* OIDC refresh: the broker's answers and their classification
\* ------------------------------------------------------------------------
\* A message is a sequence of phrases; includes(pattern) looks for a phrase.
MsgIncludes(m, pat) == m # Null /\ \E i \in 1..Len(m) : m[i] = pat

MsgPlain == <<"Invalid request">>
MsgUnableToRefresh == <<"We are ", "unable to refresh", " your session">>
MsgSuspended == <<"Your ", "account is suspended">>

\* the error field of a broker error envelope ("" when absent)
EnvelopeErrors ==
    { "", "InvalidGrantException", "AccessDeniedException", "ExpiredTokenException",
      "InvalidClientException", "UnauthorizedClientException",
      "InvalidRequestException", "SlowDownException", "InternalServerException",
      "invalid_grant" }
ErrorStatuses == {400, 401, 403, 404, 429, 500}

\* the members of the type OIDCErrorType
OIDCErrorType ==
    { "InvalidGrantException", "AccessDeniedException", "ExpiredTokenException",
      "InvalidClientException", "UnauthorizedClientException",
      "InvalidRequestException", "SlowDownException",
      "AuthorizationPendingException", "InternalServerException",
      "NetworkError", "UnknownError" }
\* a token lifetime shorter than the default one
ShortExpiresIn == 60

\* what the broker may answer to the refresh of serial k
OIDCResponses(k) ==
    { [ kind |-> "ok", accessToken |-> <<"at", Null, k>>, refreshToken |-> Null,
        expiresIn |-> Null ],
      [ kind |-> "ok", accessToken |-> <<"at", Null, k>>, refreshToken |-> <<"rt", Null, k>>,
        expiresIn |-> <<ShortExpiresIn>> ] }
    \cup { [ kind |-> "badjson" ] }
    \cup { [ kind |-> "envelope", status |-> 400, error |-> e, message |-> MsgPlain ] :
             e \in EnvelopeErrors }
    \cup { [ kind |-> "envelope", status |-> 400, error |-> e, message |-> MsgUnableToRefresh ] :
             e \in {"InvalidGrantException", "InvalidRequestException"} }
    \cup { [ kind |-> "envelope", status |-> 400, error |-> "", message |-> MsgSuspended ] }
    \cup { [ kind |-> "text", status |-> s, message |-> MsgPlain ] : s \in ErrorStatuses }
    \cup { [ kind |-> "neterr", message |-> <<"ECONNRESET">> ] }

\* "unable to refresh" is not taken as a sign of a ban
IsBlockedAccessError_NoRefreshPattern(error, message) ==
    \/ error = "AccessDeniedException"
    \/ MsgIncludes(message, "Kiro access not available")
    \/ MsgIncludes(message, "NewUserAccessPausedError")
    \/ MsgIncludes(message, "account is blocked")
    \/ MsgIncludes(message, "account is suspended")
    \/ MsgIncludes(message, "couldn't process your request")
    \/ MsgIncludes(message, "account issue")

\* isBlockedAccessError
IsBlockedAccessError(error, message) ==
    \/ error = "AccessDeniedException"
    \/ MsgIncludes(message, "Kiro access not available")
    \/ MsgIncludes(message, "NewUserAccessPausedError")
    \/ MsgIncludes(message, "account is blocked")
    \/ MsgIncludes(message, "account is suspended")
    \/ MsgIncludes(message, "couldn't process your request")
    \/ MsgIncludes(message, "account issue")
    \/ (MsgIncludes(message, "unable to refresh") /\ error = "InvalidGrantException")

\* parseOIDCError: <<error, message>>
ParseOIDCError(resp) ==
    IF resp.kind = "envelope"
    THEN <<IF resp.error = "" THEN "UnknownError" ELSE resp.error, resp.message>>
    ELSE <<CASE resp.status = 400 -> "InvalidRequestException"
             [] resp.status = 401 -> "InvalidClientException"
             [] resp.status = 403 -> "AccessDeniedException"
             [] resp.status = 429 -> "SlowDownException"
             [] resp.status >= 500 -> "InternalServerException"
             [] OTHER -> "UnknownError",
           resp.message>>

RefreshFailure(error, message, banned, invalidCreds, rateLimited) ==
    [ success |-> FALSE, error |-> error, errorMessage |-> message,
      isBanned |-> banned, isInvalidCredentials |-> invalidCreds,
      isRateLimited |-> rateLimited,
      accessToken |-> Null, refreshToken |-> Null, expiresIn |-> Null ]

\* refreshOIDCToken: the RefreshResult the promise resolves with (an absent
\* flag is FALSE: the code only tests the flags for truth)
RefreshOIDCToken(resp) ==
    CASE resp.kind = "ok" ->
           [ success |-> TRUE, error |-> "", errorMessage |-> Null,
             isBanned |-> FALSE, isInvalidCredentials |-> FALSE,
             isRateLimited |-> FALSE,
             accessToken |-> resp.accessToken, refreshToken |-> resp.refreshToken,
             expiresIn |-> IF resp.expiresIn = Null THEN <<DefaultExpiresIn>>
                           ELSE resp.expiresIn ]
      [] resp.kind = "badjson" ->
           RefreshFailure("UnknownError", <<"Failed to parse response">>, FALSE, FALSE, FALSE)
      [] resp.kind = "neterr" ->
           RefreshFailure("NetworkError", resp.message, FALSE, FALSE, FALSE)
      [] OTHER ->
           LET parsed == ParseOIDCError(resp)
           IN  RefreshFailure(parsed[1], parsed[2],
                              IsBlockedAccessError(parsed[1], parsed[2]),
                              parsed[1] \in {"InvalidClientException", "UnauthorizedClientException"},
                              parsed[1] = "SlowDownException")

\* ------------------------------------------------------------------------
\* Ban probe (getUsageLimits): the API's answers and their classification
\* ------------------------------------------------------------------------
ProbeReasons == {"", "TEMPORARILY_SUSPENDED", "FEATURE_NOT_SUPPORTED", "ACCOUNT_SUSPENDED", "OTHER"}
ProbeMessages == {Null, <<"token is ", "invalid">>, <<"Account ", "suspend", "ed">>}

ProbeResponses ==
    { [ kind |-> "json", status |-> 200, reason |-> "", message |-> Null ] }
    \cup { [ kind |-> "json", status |-> 403, reason |-> r, message |-> m ] :
             r \in ProbeReasons, m \in ProbeMessages }
    \cup { [ kind |-> "json", status |-> 500, reason |-> "", message |-> Null ] }
    \cup { [ kind |-> k, status |-> 0, reason |-> "", message |-> Null ] :
             k \in {"unparsable", "neterr", "timeout"} }

\* reason.includes('SUSPENDED')
ReasonIncludesSuspended(reason) == reason \in {"TEMPORARILY_SUSPENDED", "ACCOUNT_SUSPENDED"}

\* checkAccountBanViaAPI: the BanCheckResult the promise resolves with
CheckAccountBanViaAPI(resp) ==
    CASE resp.kind = "unparsable" -> [ isBanned |-> FALSE, error |-> "ParseError", message |-> Null ]
      [] resp.kind = "neterr" -> [ isBanned |-> FALSE, error |-> "NetworkError", message |-> Null ]
      [] resp.kind = "timeout" -> [ isBanned |-> FALSE, error |-> "Timeout", message |-> <<"Request timed out">> ]
      [] resp.status = 200 -> [ isBanned |-> FALSE, error |-> "", message |-> Null ]
      [] resp.status = 403 /\ resp.reason = "TEMPORARILY_SUSPENDED" ->
           [ isBanned |-> TRUE, error |-> "",
             message |-> IF resp.message = Null THEN <<"Account is temporarily suspended">>
                         ELSE resp.message ]
      [] resp.status = 403 /\ resp.reason = "FEATURE_NOT_SUPPORTED" ->
           [ isBanned |-> FALSE, error |-> "",
             message |-> <<"Usage limits feature not supported for this account">> ]
      [] resp.status = 403 /\ resp.reason \notin {"TEMPORARILY_SUSPENDED", "FEATURE_NOT_SUPPORTED"}
            /\ MsgIncludes(resp.message, "invalid") ->
           [ isBanned |-> FALSE, error |-> "InvalidToken", message |-> resp.message ]
      [] resp.status = 403 /\ resp.reason \notin {"TEMPORARILY_SUSPENDED", "FEATURE_NOT_SUPPORTED"}
            /\ ~MsgIncludes(resp.message, "invalid") ->
           [ isBanned |-> ReasonIncludesSuspended(resp.reason)
                          \/ MsgIncludes(resp.message, "suspend"),
             error |-> "AccessDeniedException", message |-> resp.message ]
      [] OTHER -> [ isBanned |-> FALSE, error |-> "HTTP", message |-> resp.message ]

\* ------------------------------------------------------------------------
\* Calls
\* ------------------------------------------------------------------------
\* Storage writes that may fail in a step: the machine-id file, the account's
\* token file (machine id stored / refreshed token stored), the backup copy,
\* the Kiro auth token file, the client companion file.
WriteKinds == {"machineId", "record", "update", "backup", "kiroToken", "client"}

Busy(p) == calls[p].pc \notin {"idle", "done"}

\* what a call remembers of the state it started in
Snapshot == [ kiroToken |-> kiroToken, machineIdFile |-> machineIdFile,
              usageStats |-> usageStats ]

NewCall(op, name) ==
    [ op |-> op, pc |-> "start", id |-> ncalls + 1, name |-> name, path |-> Null,
      tokenData |-> Null, refreshResult |-> Null, banCheck |-> Null,
      net |-> <<>>, pre |-> Snapshot, result |-> Null, exit |-> "", doneAt |-> 0,
      storedAccessToken |-> Null, oidc |-> Null, refreshedAt |-> 0, probe |-> Null ]

\* the call returns (exit names the return statement taken)
Finish(c, exit, result) ==
    [c EXCEPT !.pc = "done", !.exit = exit, !.result = result, !.doneAt = now]

\* ------------------------------------------------------------------------
\* refreshAccountToken / checkAccountHealth: the token written after a refresh
\* ------------------------------------------------------------------------
\* (result.expiresIn || 3600)
EffectiveExpiresIn(expiresIn) ==
    IF expiresIn = Null \/ expiresIn = <<0>> THEN DefaultExpiresIn ELSE expiresIn[1]

\* the refreshed token is stored with the old refresh token
UpdatedToken_KeepsRefreshToken(td, result, t) ==
    [ td EXCEPT !.accessToken = result.accessToken,
                !.expiresAt = <<t + EffectiveExpiresIn(result.expiresIn)>>,
                !.expiresIn = result.expiresIn ]

\* the refreshed token is stored with the old access token
UpdatedToken_KeepsAccessToken(td, result, t) ==
    [ td EXCEPT !.refreshToken = IF result.refreshToken # Null THEN result.refreshToken
                                 ELSE td.refreshToken,
                !.expiresAt = <<t + EffectiveExpiresIn(result.expiresIn)>>,
                !.expiresIn = result.expiresIn ]

\* the refreshed token is stored without a new expiresAt
UpdatedToken_KeepsExpiresAt(td, result, t) ==
    [ td EXCEPT !.accessToken = result.accessToken,
                !.refreshToken = IF result.refreshToken # Null THEN result.refreshToken
                                 ELSE td.refreshToken,
                !.expiresIn = result.expiresIn ]

\* updatedToken = {...tokenData, accessToken, refreshToken, expiresAt, expiresIn}
UpdatedToken(td, result, t) ==
    [ td EXCEPT !.accessToken = result.accessToken,
                !.refreshToken = IF result.refreshToken # Null THEN result.refreshToken
                                 ELSE td.refreshToken,
                !.expiresAt = <<t + EffectiveExpiresIn(result.expiresIn)>>,
                !.expiresIn = result.expiresIn ]

RefreshAccountFail(error, message, banned, invalidCreds) ==
    [ success |-> FALSE, error |-> error, errorMessage |-> message,
      isBanned |-> banned, isInvalidCredentials |-> invalidCreds ]

RefreshAccountOk ==
    [ success |-> TRUE, error |-> "", errorMessage |-> Null,
      isBanned |-> FALSE, isInvalidCredentials |-> FALSE ]

\* refreshAccountToken after the broker answered: what it returns, given
\* whether storing the updated token throws
RefreshAccountResult(result, writeThrows) ==
    IF ~result.success
    THEN RefreshAccountFail(result.error, result.errorMessage, result.isBanned,
                            result.isInvalidCredentials)
    ELSE IF writeThrows
    THEN RefreshAccountFail("UnknownError", <<"EACCES">>, FALSE, FALSE)
    ELSE RefreshAccountOk

\* ------------------------------------------------------------------------
\* switchToAccount
\* ------------------------------------------------------------------------
SwitchFail(error, message, banned) ==
    [ success |-> FALSE, error |-> error, errorMessage |-> message, isBanned |-> banned ]

SwitchOk == [ success |-> TRUE, error |-> "", errorMessage |-> Null, isBanned |-> FALSE ]

\* a new machine id on every switch (what rotateMachineId does)
GetAccountMachineId_AlwaysNew(td, serial) == <<"mid", serial>>

\* getAccountMachineId: the stored machine id, else a newly generated one
GetAccountMachineId(td, serial) ==
    IF td.machineId # Null THEN td.machineId ELSE <<"mid", serial>>

\* writeKiroToken: clientIdHash of the token ('' when there is no client id)
ClientIdHashOf(td) ==
    IF td.clientId # Null THEN GenerateClientIdHash(td.clientId) ELSE Null

\* writeKiroToken: the Kiro auth token written for an account
KiroTokenOf(td) ==
    [ accessToken |-> td.accessToken, refreshToken |-> td.refreshToken,
      expiresAt |-> td.expiresAt, clientIdHash |-> ClientIdHashOf(td) ]

\* writeKiroToken: the client companion file written for an account
ClientDataOf(td) == [ clientId |-> td.clientId, clientSecret |-> td.clientSecret ]

\* the stored token is used after a failed refresh whatever its expiry
SwitchBranch_NoExpiryCheck(refreshResult, td, t) ==
    IF refreshResult.success THEN "probe"
    ELSE IF refreshResult.isBanned THEN "banned"
    ELSE IF refreshResult.error = "InvalidGrantException" THEN "invalidGrant"
    ELSE "useExisting"

\* a refreshed account is activated without the ban check
SwitchBranch_NoProbe(refreshResult, td, t) ==
    IF refreshResult.success THEN "useExisting"
    ELSE IF refreshResult.isBanned THEN "banned"
    ELSE IF refreshResult.error = "InvalidGrantException" THEN "invalidGrant"
    ELSE IF IsTokenTrulyInvalid(td, t) THEN "trulyInvalid"
    ELSE "useExisting"

\* the branch switchToAccount takes on the result of refreshAccountToken
SwitchBranch(refreshResult, td, t) ==
    IF refreshResult.success THEN "probe"
    ELSE IF refreshResult.isBanned THEN "banned"
    ELSE IF refreshResult.error = "InvalidGrantException" THEN "invalidGrant"
    ELSE IF IsTokenTrulyInvalid(td, t) THEN "trulyInvalid"
    ELSE "useExisting"

\* the count of the account is left as it was
IncrementUsage_NotCounted(stats, accountName) ==
    stats

\* incrementUsage: the count of the account goes up by one
IncrementUsage(stats, accountName) ==
    [stats EXCEPT ![accountName] = @ + 1]

\* Lines 384-399 of switchToAccount with writeKiroToken and incrementUsage:
\* machine id activated, stored in the token file if new, the Kiro token
\* backed up and overwritten, the client file written, the usage counted.
\* c is the call, td its account.tokenData, faults the writes that fail in
\* this step.  generateMachineId draws a value never drawn before: the
\* call's number.  The Kiro token file and the client file are written by two
\* writeFileSync calls; with "interleave" among the faults the step ends
\* between the two, where another process can read the files, and
\* SwitchClientWrite is the rest.
Activate(p, c, td, faults) ==
    LET isNew == td.machineId = Null
        accountMachineId == GetAccountMachineId(td, c.id)
        td2 == [td EXCEPT !.machineId = accountMachineId]
        recordThrows == isNew /\ "record" \in faults
        backupThrows == kiroToken # Null /\ "backup" \in faults
        kiroWritten == ~recordThrows /\ ~backupThrows /\ "kiroToken" \notin faults
        clientNeeded == td2.clientId # Null /\ td2.clientSecret # Null
        clientThrows == clientNeeded /\ "client" \in faults
        success == kiroWritten /\ ~clientThrows
        paused == kiroWritten /\ "interleave" \in faults
    IN  /\ machineIdFile' = IF "machineId" \in faults THEN machineIdFile
                            ELSE accountMachineId
        /\ files' = IF isNew /\ ~recordThrows THEN [files EXCEPT ![c.path] = td2]
                    ELSE files
        /\ backups' = IF kiroToken # Null /\ ~recordThrows /\ ~backupThrows
                      THEN {b \in backups : b[1] # now} \cup {<<now, kiroToken>>}
                      ELSE backups
        /\ kiroToken' = IF kiroWritten THEN KiroTokenOf(td2) ELSE kiroToken
        /\ clientFiles' = IF kiroWritten /\ clientNeeded /\ ~clientThrows /\ ~paused
                          THEN [clientFiles EXCEPT ![ClientIdHashOf(td2)] = ClientDataOf(td2)]
                          ELSE clientFiles
        /\ usageStats' = IF success /\ ~paused
                         THEN IncrementUsage(usageStats, td2.accountName)
                         ELSE usageStats
        /\ calls' = [calls EXCEPT ![p] =
                       IF paused
                       THEN [c EXCEPT !.pc = "sw_client", !.tokenData = td2]
                       ELSE IF recordThrows
                       THEN Finish([c EXCEPT !.tokenData = td2], "threw", Null)
                       ELSE IF success
                       THEN Finish([c EXCEPT !.tokenData = td2], "activated", SwitchOk)
                       ELSE Finish([c EXCEPT !.tokenData = td2], "writeFailed",
                                   SwitchFail("", <<"Failed to write token">>, FALSE))]

\* the machine id of the account is put in place before the refresh is awaited
SwitchStart_MachineIdFirst(p, name, faults) ==
    /\ ~Busy(p)
    /\ ncalls < MaxCalls
    /\ ncalls' = ncalls + 1
    /\ \E accounts \in LoadAccounts :
         LET f == FindAccount(accounts, name)
             c == NewCall("switch", name)
         IN  IF f = Null
             THEN /\ calls' = [calls EXCEPT ![p] =
                        Finish(c, "notFound", SwitchFail("", <<"Account not found">>, FALSE))]
                  /\ UNCHANGED <<files, kiroToken, clientFiles, backups,
                                 machineIdFile, usageStats>>
             ELSE IF ~HasCredentials(files[f])
             THEN Activate(p, [c EXCEPT !.path = f,
                                        !.storedAccessToken = files[f].accessToken],
                           files[f], faults)
             ELSE /\ calls' = [calls EXCEPT ![p] =
                        [c EXCEPT !.pc = "sw_refresh", !.path = f, !.tokenData = files[f],
                                  !.storedAccessToken = files[f].accessToken,
                                  !.net = <<<<"refresh", files[f].refreshToken>>>>]]
                  /\ machineIdFile' = GetAccountMachineId(files[f], c.id)
                  /\ UNCHANGED <<files, kiroToken, clientFiles, backups, usageStats>>
    /\ UNCHANGED <<usageCache, now, secretVars>>

\* switchToAccount up to its first await: the account is looked up; without
\* refresh credentials it is activated at once, else the refresh is sent
SwitchStart(p, name, faults) ==
    /\ ~Busy(p)
    /\ ncalls < MaxCalls
    /\ ncalls' = ncalls + 1
    /\ \E accounts \in LoadAccounts :
         LET f == FindAccount(accounts, name)
             c == NewCall("switch", name)
         IN  IF f = Null
             THEN /\ calls' = [calls EXCEPT ![p] =
                        Finish(c, "notFound", SwitchFail("", <<"Account not found">>, FALSE))]
                  /\ UNCHANGED <<files, kiroToken, clientFiles, backups,
                                 machineIdFile, usageStats>>
             ELSE IF ~HasCredentials(files[f])
             THEN Activate(p, [c EXCEPT !.path = f,
                                        !.storedAccessToken = files[f].accessToken],
                           files[f], faults)
             ELSE /\ calls' = [calls EXCEPT ![p] =
                        [c EXCEPT !.pc = "sw_refresh", !.path = f, !.tokenData = files[f],
                                  !.storedAccessToken = files[f].accessToken,
                                  !.net = <<<<"refresh", files[f].refreshToken>>>>]]
                  /\ UNCHANGED <<files, kiroToken, clientFiles, backups,
                                 machineIdFile, usageStats>>
    /\ UNCHANGED <<usageCache, now, secretVars>>

\* switchToAccount when refreshAccountToken returns
SwitchRefreshDone(p, resp, faults) ==
    /\ calls[p].pc = "sw_refresh"
    /\ LET result == RefreshOIDCToken(resp)
           refreshResult == RefreshAccountResult(result, "update" \in faults)
           c == [calls[p] EXCEPT !.refreshResult = refreshResult]
           updated == UpdatedToken(c.tokenData, result, now)
           branch == SwitchBranch(refreshResult, c.tokenData, now)
       IN  CASE branch = "probe" ->
                  /\ files' = [files EXCEPT ![c.path] = updated]
                  /\ calls' = [calls EXCEPT ![p] =
                        [c EXCEPT !.pc = "sw_probe", !.tokenData = updated,
                                  !.oidc = result, !.refreshedAt = now,
                                  !.net = Append(@, <<"probe", updated.accessToken>>)]]
                  /\ UNCHANGED <<kiroToken, clientFiles, backups, machineIdFile, usageStats>>
             [] branch = "banned" ->
                  /\ calls' = [calls EXCEPT ![p] =
                        Finish(c, "refreshBanned",
                               SwitchFail(refreshResult.error, <<"Account is banned">>, TRUE))]
                  /\ UNCHANGED <<files, kiroToken, clientFiles, backups, machineIdFile, usageStats>>
             [] branch = "invalidGrant" ->
                  /\ calls' = [calls EXCEPT ![p] =
                        Finish(c, "invalidGrant",
                               SwitchFail(refreshResult.error, refreshResult.errorMessage, FALSE))]
                  /\ UNCHANGED <<files, kiroToken, clientFiles, backups, machineIdFile, usageStats>>
             [] branch = "trulyInvalid" ->
                  /\ calls' = [calls EXCEPT ![p] =
                        Finish(c, "trulyInvalid",
                               SwitchFail(refreshResult.error, refreshResult.errorMessage,
                                          refreshResult.isBanned))]
                  /\ UNCHANGED <<files, kiroToken, clientFiles, backups, machineIdFile, usageStats>>
             [] OTHER ->
                  Activate(p, c, c.tokenData, faults)
    /\ UNCHANGED <<usageCache, now, ncalls, secretVars>>

\* writeKiroToken from the client file on, then incrementUsage and the return
\* of switchToAccount, when the activation was split after the Kiro token write
SwitchClientWrite(p, faults) ==
    /\ calls[p].pc = "sw_client"
    /\ LET c == calls[p]
           td == c.tokenData
           clientNeeded == td.clientId # Null /\ td.clientSecret # Null
           clientThrows == clientNeeded /\ "client" \in faults
       IN  /\ clientFiles' = IF clientNeeded /\ ~clientThrows
                             THEN [clientFiles EXCEPT ![ClientIdHashOf(td)] = ClientDataOf(td)]
                             ELSE clientFiles
           /\ usageStats' = IF ~clientThrows
                            THEN IncrementUsage(usageStats, td.accountName)
                            ELSE usageStats
           /\ calls' = [calls EXCEPT ![p] =
                          IF ~clientThrows THEN Finish(c, "activated", SwitchOk)
                          ELSE Finish(c, "writeFailed",
                                      SwitchFail("", <<"Failed to write token">>, FALSE))]
    /\ UNCHANGED <<files, kiroToken, backups, machineIdFile, usageCache, now, ncalls, secretVars>>

\* the ban check's verdict is ignored
ProbeAborts_Ignored(banCheck) == FALSE

\* if (banCheck.isBanned): the switch is refused
ProbeAborts(banCheck) == banCheck.isBanned

\* switchToAccount when checkAccountBanViaAPI returns
SwitchProbeDone(p, resp, faults) ==
    /\ calls[p].pc = "sw_probe"
    /\ LET banCheck == CheckAccountBanViaAPI(resp)
           c == [calls[p] EXCEPT !.banCheck = banCheck, !.probe = resp]
       IN  IF ProbeAborts(banCheck)
           THEN /\ calls' = [calls EXCEPT ![p] =
                      Finish(c, "probeBanned",
                             SwitchFail("AccessDeniedException",
                                        IF banCheck.message = Null
                                        THEN <<"Account is banned (TEMPORARILY_SUSPENDED)">>
                                        ELSE banCheck.message,
                                        TRUE))]
                /\ UNCHANGED <<files, kiroToken, clientFiles, backups,
                               machineIdFile, usageStats>>
           ELSE Activate(p, c, c.tokenData, faults)
    /\ UNCHANGED <<usageCache, now, ncalls, secretVars>>

\* ------------------------------------------------------------------------
\* refreshAccountToken called on its own
\* ------------------------------------------------------------------------
\* up to the await of refreshOIDCToken
RefreshStart(p, name) ==
    /\ ~Busy(p)
    /\ ncalls < MaxCalls
    /\ ncalls' = ncalls + 1
    /\ \E accounts \in LoadAccounts :
         LET f == FindAccount(accounts, name)
             c == NewCall("refresh", name)
         IN  calls' = [calls EXCEPT ![p] =
               IF f = Null
               THEN Finish(c, "notFound",
                           RefreshAccountFail("UnknownError", <<"Account not found">>, FALSE, FALSE))
               ELSE IF ~HasCredentials(files[f])
               THEN Finish([c EXCEPT !.path = f, !.tokenData = files[f]], "missingCredentials",
                           RefreshAccountFail("InvalidClientException", <<"Missing credentials">>,
                                              FALSE, TRUE))
               ELSE [c EXCEPT !.pc = "rf_wait", !.path = f, !.tokenData = files[f],
                              !.net = <<<<"refresh", files[f].refreshToken>>>>]]
    /\ UNCHANGED <<files, kiroToken, clientFiles, backups, machineIdFile,
                   usageStats, usageCache, now, secretVars>>

\* the token is stored whether the refresh succeeded or not
RefreshDone_WritesOnFailure(p, resp, faults) ==
    /\ calls[p].pc = "rf_wait"
    /\ LET c == calls[p]
           result == RefreshOIDCToken(resp)
           res == RefreshAccountResult(result, "update" \in faults)
       IN  /\ files' = [files EXCEPT ![c.path] = UpdatedToken(c.tokenData, result, now)]
           /\ calls' = [calls EXCEPT ![p] =
                  Finish(c, IF res.success THEN "refreshed" ELSE "refreshFailed", res)]
    /\ UNCHANGED <<kiroToken, clientFiles, backups, machineIdFile,
                   usageStats, usageCache, now, ncalls, secretVars>>

\* when refreshOIDCToken resolves
RefreshDone(p, resp, faults) ==
    /\ calls[p].pc = "rf_wait"
    /\ LET c == calls[p]
           result == RefreshOIDCToken(resp)
           res == RefreshAccountResult(result, "update" \in faults)
       IN  /\ files' = IF res.success
                       THEN [files EXCEPT ![c.path] = UpdatedToken(c.tokenData, result, now)]
                       ELSE files
           /\ calls' = [calls EXCEPT ![p] =
                  Finish(c, IF res.success THEN "refreshed" ELSE "refreshFailed", res)]
    /\ UNCHANGED <<kiroToken, clientFiles, backups, machineIdFile,
                   usageStats, usageCache, now, ncalls, secretVars>>

\* ------------------------------------------------------------------------
\* checkAccountHealth
\* ------------------------------------------------------------------------
HealthStatus(healthy, banned, expired, hasCreds, error, message) ==
    [ isHealthy |-> healthy, isBanned |-> banned, isExpired |-> expired,
      hasCredentials |-> hasCreds, error |-> error, errorMessage |-> message ]

\* isTokenExpired(tokenData) with no offset
IsTokenExpired(td, t) ==
    IF td.expiresAt = Null THEN TRUE ELSE td.expiresAt[1] <= t

\* up to the await of refreshOIDCToken
HealthStart(p, name) ==
    /\ ~Busy(p)
    /\ ncalls < MaxCalls
    /\ ncalls' = ncalls + 1
    /\ \E accounts \in LoadAccounts :
         LET f == FindAccount(accounts, name)
             c == NewCall("health", name)
         IN  calls' = [calls EXCEPT ![p] =
               IF f = Null
               THEN Finish(c, "notFound",
                           HealthStatus(FALSE, FALSE, FALSE, FALSE, "", <<"Account not found">>))
               ELSE IF ~HasCredentials(files[f])
               THEN Finish([c EXCEPT !.path = f, !.tokenData = files[f]], "missingCredentials",
                           HealthStatus(FALSE, FALSE, IsTokenExpired(files[f], now), FALSE, "",
                                        <<"Missing credentials (clientId/clientSecret)">>))
               ELSE [c EXCEPT !.pc = "ch_wait", !.path = f, !.tokenData = files[f],
                              !.net = <<<<"refresh", files[f].refreshToken>>>>]]
    /\ UNCHANGED <<files, kiroToken, clientFiles, backups, machineIdFile,
                   usageStats, usageCache, now, secretVars>>

\* when refreshOIDCToken resolves; storing the token is not guarded, so a
\* failing write leaves the call with an exception
HealthDone(p, resp, faults) ==
    /\ calls[p].pc = "ch_wait"
    /\ LET c == calls[p]
           result == RefreshOIDCToken(resp)
           writeThrows == result.success /\ "update" \in faults
       IN  /\ files' = IF result.success /\ ~writeThrows
                       THEN [files EXCEPT ![c.path] = UpdatedToken(c.tokenData, result, now)]
                       ELSE files
           /\ calls' = [calls EXCEPT ![p] =
                  IF writeThrows THEN Finish(c, "threw", Null)
                  ELSE IF result.success
                  THEN Finish(c, "refreshed", HealthStatus(TRUE, FALSE, FALSE, TRUE, "", Null))
                  ELSE Finish(c, "refreshFailed",
                              HealthStatus(FALSE, result.isBanned,
                                           result.error \in {"InvalidGrantException",
                                                             "ExpiredTokenException"},
                                           TRUE, result.error, result.errorMessage))]
    /\ UNCHANGED <<kiroToken, clientFiles, backups, machineIdFile,
                   usageStats, usageCache, now, ncalls, secretVars>>

\* ------------------------------------------------------------------------
\* Time
\* ------------------------------------------------------------------------
Tick ==
    /\ now < StartTime + MaxTicks
    /\ now' = now + 1
    /\ UNCHANGED <<files, kiroToken, clientFiles, backups, machineIdFile,
                   usageStats, usageCache, ncalls, calls, secretVars>>

Next ==
    \/ Tick
    \/ \E p \in DOMAIN calls, name \in CallNames : SwitchStart(p, name, {})
    \/ \E p \in DOMAIN calls : \E resp \in OIDCResponses(calls[p].id) :
            SwitchRefreshDone(p, resp, {})
    \/ \E p \in DOMAIN calls, resp \in ProbeResponses : SwitchProbeDone(p, resp, {})
    \/ \E p \in DOMAIN calls, name \in CallNames : RefreshStart(p, name)
    \/ \E p \in DOMAIN calls : \E resp \in OIDCResponses(calls[p].id) :
            RefreshDone(p, resp, {})
    \/ \E p \in DOMAIN calls, name \in CallNames : HealthStart(p, name)
    \/ \E p \in DOMAIN calls : \E resp \in OIDCResponses(calls[p].id) :
            HealthDone(p, resp, {})

Spec == Init /\ [][Next]_vars

\* switchToAccount when a storage write may fail: in each step at most one
\* of the writes fails.
FaultChoices == {{}} \cup {{w} : w \in WriteKinds}

NextFault ==
    \/ Tick
    \/ \E p \in DOMAIN calls, name \in CallNames, faults \in FaultChoices :
            SwitchStart(p, name, faults)
    \/ \E p \in DOMAIN calls : \E resp \in OIDCResponses(calls[p].id), faults \in FaultChoices :
            SwitchRefreshDone(p, resp, faults)
    \/ \E p \in DOMAIN calls, resp \in ProbeResponses, faults \in FaultChoices :
            SwitchProbeDone(p, resp, faults)

SpecFault == Init /\ [][NextFault]_vars
\* switchToAccount as another process sees the files: the activation is two
\* steps, the Kiro token write and the client file write.
NextSteps ==
    \/ Tick
    \/ \E p \in DOMAIN calls, name \in CallNames : SwitchStart(p, name, {"interleave"})
    \/ \E p \in DOMAIN calls : \E resp \in OIDCResponses(calls[p].id) :
            SwitchRefreshDone(p, resp, {"interleave"})
    \/ \E p \in DOMAIN calls, resp \in ProbeResponses :
            SwitchProbeDone(p, resp, {"interleave"})
    \/ \E p \in DOMAIN calls : SwitchClientWrite(p, {})

SpecSteps == Init /\ [][NextSteps]_vars

\* ------------------------------------------------------------------------
\* A broker that does not answer
\* ------------------------------------------------------------------------
\* The refresh request gets neither a response nor a socket error.
\* refreshOIDCToken registers a response handler and an 'error' handler and
\* no timer, so its promise is never resolved and the caller stays at its
\* await.  (The ban check has a 10 s timer: its silence is the "timeout"
\* answer of ProbeResponses.)
BrokerSilent(p) ==
    /\ calls[p].pc \in {"sw_refresh", "rf_wait", "ch_wait"}
    /\ calls' = [calls EXCEPT ![p].pc = "hung"]
    /\ UNCHANGED <<files, kiroToken, clientFiles, backups, machineIdFile,
                   usageStats, usageCache, now, ncalls, secretVars>>

NextLive ==
    \/ Next
    \/ \E p \in DOMAIN calls : BrokerSilent(p)

\* every event that can happen eventually does: an answer arrives or the
\* request is lost, a timer fires, a continuation runs
SpecLive == Init /\ [][NextLive]_vars /\ WF_vars(NextLive)

\* ------------------------------------------------------------------------
\* Switching when Kiro already has an active session
\* ------------------------------------------------------------------------
\* the token file of account "ab" as an earlier activation left it
SessionToken == [InitToken(NameAB, "full", <<0>>) EXCEPT !.machineId = <<"mid", 0>>]

\* the usage of the active account as updateActiveAccountUsage caches it
SessionUsage ==
    [ currentUsage |-> <<1>>, isBanned |-> FALSE, banReason |-> Null,
      suspended |-> "unknown", stale |-> FALSE ]

\* the state an earlier switch to "ab" has left: its Kiro token, client file,
\* machine id and usage count are in place, and its usage is cached
InitSession ==
    /\ \E prof \in InitProfiles :
          files = [ f \in Files |->
                      IF f = FileOf(NameA) THEN InitToken(NameA, prof[1], prof[2])
                      ELSE SessionToken ]
    /\ kiroToken = KiroTokenOf(SessionToken)
    /\ clientFiles = [ h \in {GenerateClientIdHash(ClientIdOf(n)) : n \in AccountNames} |->
                         IF h = ClientIdHashOf(SessionToken) THEN ClientDataOf(SessionToken)
                         ELSE Null ]
    /\ backups = {}
    /\ machineIdFile = SessionToken.machineId
    /\ usageStats = [ n \in AccountNames |-> IF n = NameAB THEN 1 ELSE 0 ]
    /\ usageCache = [ n \in AccountNames |-> IF n = NameAB THEN SessionUsage ELSE Null ]
    /\ now = StartTime
    /\ secrets = [ n \in AccountNames |-> Null ]
    /\ useSecretStorage = FALSE
    /\ ncalls = 0
    /\ calls = [ p \in Callers |-> IdleCall ]

NextSwitch ==
    \/ Tick
    \/ \E p \in DOMAIN calls, name \in CallNames : SwitchStart(p, name, {})
    \/ \E p \in DOMAIN calls : \E resp \in OIDCResponses(calls[p].id) :
            SwitchRefreshDone(p, resp, {})
    \/ \E p \in DOMAIN calls, resp \in ProbeResponses : SwitchProbeDone(p, resp, {})

SpecSession == InitSession /\ [][NextSwitch]_vars

\* ------------------------------------------------------------------------
\* loadAccounts as an operation of its own
\* ------------------------------------------------------------------------
\* what the tokens directory may hold for an account: nothing, or an
\* imported token with or without a refresh token
ListProfiles == {"absent", "full", "noRefreshToken"}

ListToken(name, kind) ==
    IF kind = "absent" THEN Null ELSE InitToken(name, kind, <<0>>)

\* any tokens directory (none of the files, when it is missing or empty),
\* with no Kiro token or the Kiro token of one of the accounts
InitList ==
    /\ \E ka, kb \in ListProfiles :
          /\ files = [ f \in Files |->
                         IF f = FileOf(NameA) THEN ListToken(NameA, ka)
                         ELSE ListToken(NameAB, kb) ]
          /\ kiroToken \in {Null} \cup {KiroTokenOf(files[f]) : f \in {g \in Files : files[g] # Null}}
    /\ clientFiles = [ h \in {GenerateClientIdHash(ClientIdOf(n)) : n \in AccountNames} |-> Null ]
    /\ backups = {}
    /\ machineIdFile = Null
    /\ usageStats = [ n \in AccountNames |-> 0 ]
    /\ usageCache = [ n \in AccountNames |-> Null ]
    /\ now = StartTime
    /\ secrets = [ n \in AccountNames |-> Null ]
    /\ useSecretStorage = FALSE
    /\ ncalls = 0
    /\ calls = [ p \in Callers |-> IdleCall ]

\* loadAccounts(): the token files in the order of the returned list
ListAccounts(p) ==
    /\ ~Busy(p)
    /\ ncalls < MaxCalls
    /\ ncalls' = ncalls + 1
    /\ \E accounts \in LoadAccounts :
         calls' = [calls EXCEPT ![p] = Finish(NewCall("list", Null), "listed", accounts)]
    /\ UNCHANGED <<files, kiroToken, clientFiles, backups, machineIdFile,
                   usageStats, usageCache, now, secretVars>>

NextList ==
    \/ Tick
    \/ \E p \in DOMAIN calls : ListAccounts(p)

SpecList == InitList /\ [][NextList]_vars

\* ------------------------------------------------------------------------
\* deleteAccount (skipConfirm = true: no await, one step)
\* ------------------------------------------------------------------------
\* the find predicate of deleteAccount (the token files carry no email)
DeleteMatches(f, name) ==
    f = name \/ files[f].accountName = name \/ Includes(f, name)

FindAccountToDelete(accounts, name) ==
    LET hits == {i \in 1..Len(accounts) : DeleteMatches(accounts[i], name)}
    IN  IF hits = {} THEN Null
        ELSE accounts[CHOOSE i \in hits : \A j \in hits : i <= j]

\* deleteAccount returns a boolean; unlinkThrows: fs.unlinkSync fails
DeleteAccount(p, name, unlinkThrows) ==
    /\ ~Busy(p)
    /\ ncalls < MaxCalls
    /\ ncalls' = ncalls + 1
    /\ \E accounts \in LoadAccounts :
         LET f == FindAccountToDelete(accounts, name)
             c == NewCall("delete", name) @@ [ preFiles |-> files ]
         IN  IF f = Null
             THEN /\ calls' = [calls EXCEPT ![p] = Finish(c, "notFound", FALSE)]
                  /\ UNCHANGED <<files, usageStats>>
             ELSE IF unlinkThrows
             THEN /\ calls' = [calls EXCEPT ![p] =
                        Finish([c EXCEPT !.path = f], "deleteFailed", FALSE)]
                  /\ UNCHANGED <<files, usageStats>>
             ELSE /\ files' = [files EXCEPT ![f] = Null]
                  /\ usageStats' = [usageStats EXCEPT ![files[f].accountName] = 0]
                  /\ calls' = [calls EXCEPT ![p] =
                        Finish([c EXCEPT !.path = f], "deleted", TRUE)]
    /\ UNCHANGED <<kiroToken, clientFiles, backups, machineIdFile, usageCache, now, secretVars>>

NextDelete ==
    \/ Tick
    \/ \E p \in DOMAIN calls, name \in CallNames : SwitchStart(p, name, {})
    \/ \E p \in DOMAIN calls : \E resp \in OIDCResponses(calls[p].id) :
            SwitchRefreshDone(p, resp, {})
    \/ \E p \in DOMAIN calls, resp \in ProbeResponses : SwitchProbeDone(p, resp, {})
    \/ \E p \in DOMAIN calls, name \in CallNames, unlinkThrows \in BOOLEAN :
            DeleteAccount(p, name, unlinkThrows)

SpecDelete == Init /\ [][NextDelete]_vars

\* ------------------------------------------------------------------------
\* Two switches in flight: a second switchToAccount is started while the
\* first awaits the broker or the ban check
\* ------------------------------------------------------------------------
PairCallers == {1, 2}

InitPair ==
    /\ \E prof \in InitProfiles :
          files = [ f \in Files |->
                      IF f = FileOf(NameA) THEN InitToken(NameA, prof[1], prof[2])
                      ELSE InitToken(NameAB, "full", <<0>>) ]
    /\ kiroToken = Null
    /\ clientFiles = [ h \in {GenerateClientIdHash(ClientIdOf(n)) : n \in AccountNames} |-> Null ]
    /\ backups = {}
    /\ machineIdFile = Null
    /\ usageStats = [ n \in AccountNames |-> 0 ]
    /\ usageCache = [ n \in AccountNames |-> Null ]
    /\ now = StartTime
    /\ secrets = [ n \in AccountNames |-> Null ]
    /\ useSecretStorage = FALSE
    /\ ncalls = 0
    /\ calls = [ p \in PairCallers |-> IdleCall ]

\* the broker's answers told apart by the two switches: a refreshed token, or
\* no answer at all
PairOIDCResponses(k) == {r \in OIDCResponses(k) : r.kind \in {"ok", "neterr"}}

\* the ban check's answers: the plain ones, without a message
PairProbeResponses == {r \in ProbeResponses : r.message = Null}

NextPair ==
    \/ Tick
    \/ \E p \in DOMAIN calls, name \in AccountNames : SwitchStart(p, name, {})
    \/ \E p \in DOMAIN calls : \E resp \in PairOIDCResponses(calls[p].id) :
            SwitchRefreshDone(p, resp, {})
    \/ \E p \in DOMAIN calls, resp \in PairProbeResponses : SwitchProbeDone(p, resp, {})

SpecPair == InitPair /\ [][NextPair]_vars

\* ------------------------------------------------------------------------
\* A switch in flight together with a refresh or a health check
\* ------------------------------------------------------------------------
\* the first caller switches accounts while the second one refreshes them or
\* checks their health
NextMix ==
    \/ Tick
    \/ \E p \in Callers, name \in AccountNames : SwitchStart(p, name, {})
    \/ \E p \in Callers : \E resp \in PairOIDCResponses(calls[p].id) :
            SwitchRefreshDone(p, resp, {})
    \/ \E p \in Callers, resp \in PairProbeResponses : SwitchProbeDone(p, resp, {})
    \/ \E p \in PairCallers \ Callers, name \in AccountNames : RefreshStart(p, name)
    \/ \E p \in PairCallers \ Callers : \E resp \in PairOIDCResponses(calls[p].id) :
            RefreshDone(p, resp, {})
    \/ \E p \in PairCallers \ Callers, name \in AccountNames : HealthStart(p, name)
    \/ \E p \in PairCallers \ Callers : \E resp \in PairOIDCResponses(calls[p].id) :
            HealthDone(p, resp, {})

SpecMix == InitPair /\ [][NextMix]_vars

\* ------------------------------------------------------------------------
\* refreshAllAccounts
\* ------------------------------------------------------------------------
\* one call of refreshAccountToken made by the loop: the name it was given,
\* the token file it found and how it ended
Attempt(asked, path, outcome) == [ asked |-> asked, path |-> path, outcome |-> outcome ]

\* the loop of refreshAllAccounts from the account at the head of queue up to
\* its next await of the broker, or to its end.  queue holds the token data
\* loadAccounts returned when the operation started; accounts is what
\* loadAccounts returns to refreshAccountToken now.
RECURSIVE RefreshAllLoop(_, _, _)
RefreshAllLoop(c, queue, accounts) ==
    IF queue = <<>>
    THEN Finish([c EXCEPT !.queue = <<>>], "refreshedAll", TRUE)
    ELSE LET acc == Head(queue)
             f == FindAccount(accounts, acc.accountName)
         IN  IF acc.clientId = Null \/ acc.clientSecret = Null
             THEN RefreshAllLoop(c, Tail(queue), accounts)
             ELSE IF f = Null
             THEN RefreshAllLoop(
                    [c EXCEPT !.attempts = Append(@, Attempt(acc.accountName, Null, "notFound"))],
                    Tail(queue), accounts)
             ELSE IF ~HasCredentials(files[f])
             THEN RefreshAllLoop(
                    [c EXCEPT !.attempts =
                        Append(@, Attempt(acc.accountName, f, "missingCredentials"))],
                    Tail(queue), accounts)
             ELSE [c EXCEPT !.pc = "ra_wait", !.queue = Tail(queue), !.name = acc.accountName,
                            !.path = f, !.tokenData = files[f],
                            !.net = <<<<"refresh", files[f].refreshToken>>>>]

\* refreshAllAccounts up to its first await: the accounts are loaded once
RefreshAllStart(p) ==
    /\ ~Busy(p)
    /\ ncalls < MaxCalls
    /\ ncalls' = ncalls + 1
    /\ \E accounts \in LoadAccounts :
         LET c == NewCall("refreshAll", Null) @@
                    [ queue |-> <<>>, attempts |-> <<>>,
                      eligible |-> {f \in ExistingFiles : HasCredentials(files[f])} ]
         IN  calls' = [calls EXCEPT ![p] =
                RefreshAllLoop(c, [i \in 1..Len(accounts) |-> files[accounts[i]]], accounts)]
    /\ UNCHANGED <<files, kiroToken, clientFiles, backups, machineIdFile,
                   usageStats, usageCache, now, secretVars>>

\* the awaited refreshAccountToken resolves: the refreshed token is stored
RefreshAllDone(p, resp) ==
    /\ calls[p].pc = "ra_wait"
    /\ LET c == calls[p]
           result == RefreshOIDCToken(resp)
       IN  /\ files' = IF result.success
                       THEN [files EXCEPT ![c.path] = UpdatedToken(c.tokenData, result, now)]
                       ELSE files
           /\ calls' = [calls EXCEPT ![p] =
                  [c EXCEPT !.pc = "ra_loop", !.net = <<>>,
                            !.attempts = Append(@, Attempt(c.name, c.path,
                                 IF result.success THEN "refreshed" ELSE "refreshFailed"))]]
    /\ UNCHANGED <<kiroToken, clientFiles, backups, machineIdFile,
                   usageStats, usageCache, now, ncalls, secretVars>>

\* the loop goes on with the next account
RefreshAllContinue(p) ==
    /\ calls[p].pc = "ra_loop"
    /\ \E accounts \in LoadAccounts :
         calls' = [calls EXCEPT ![p] = RefreshAllLoop(calls[p], calls[p].queue, accounts)]
    /\ UNCHANGED <<files, kiroToken, clientFiles, backups, machineIdFile,
                   usageStats, usageCache, now, ncalls, secretVars>>

NextRefreshAll ==
    \/ Tick
    \/ \E p \in DOMAIN calls : RefreshAllStart(p)
    \/ \E p \in DOMAIN calls : \E resp \in OIDCResponses(calls[p].id) : RefreshAllDone(p, resp)
    \/ \E p \in DOMAIN calls : RefreshAllContinue(p)

SpecRefreshAll == InitSession /\ [][NextRefreshAll]_vars

\* ------------------------------------------------------------------------
\* secretStorage.ts: moving the secrets of the token files into SecretStorage
\* and back
\* ------------------------------------------------------------------------
\* what migrateToSecretStorage leaves in the file in place of a secret
STORED_IN_KEYCHAIN == <<"[STORED_IN_KEYCHAIN]">>

\* a || b on optional strings
Either(a, b) == IF a = Null THEN b ELSE a

\* storeSecrets: SecretStorage after the call (nothing is stored while the
\* setting is off)
StoreSecrets(accountName, tokenData) ==
    IF ~useSecretStorage THEN secrets
    ELSE [secrets EXCEPT ![accountName] =
            [ accessToken |-> tokenData.accessToken,
              refreshToken |-> tokenData.refreshToken,
              clientSecret |-> tokenData.clientSecret ]]

\* getSecrets: null while the setting is off
GetSecrets(accountName) ==
    IF ~useSecretStorage THEN Null ELSE secrets[accountName]

\* the file migrateToSecretStorage writes
Sanitized(tokenData) ==
    [tokenData EXCEPT !.accessToken = STORED_IN_KEYCHAIN,
                      !.refreshToken = STORED_IN_KEYCHAIN,
                      !.clientSecret = STORED_IN_KEYCHAIN]

\* the file migrateFromSecretStorage writes
Restored(tokenData, stored) ==
    [tokenData EXCEPT !.accessToken = Either(stored.accessToken, tokenData.accessToken),
                      !.refreshToken = Either(stored.refreshToken, tokenData.refreshToken),
                      !.clientSecret = Either(stored.clientSecret, tokenData.clientSecret)]

\* fs.readdirSync: the token files in any order
DirListings ==
    LET n == Cardinality(ExistingFiles)
    IN  { s \in [1..n -> ExistingFiles] : \A i, j \in 1..n : i # j => s[i] # s[j] }

\* token files, one of them possibly lacking a credential, nothing in
\* SecretStorage yet, the setting on or off
InitSecret ==
    /\ \E prof \in InitProfiles :
          files = [ f \in Files |->
                      IF f = FileOf(NameA) THEN InitToken(NameA, prof[1], prof[2])
                      ELSE InitToken(NameAB, "full", <<0>>) ]
    /\ kiroToken = Null
    /\ clientFiles = [ h \in {GenerateClientIdHash(ClientIdOf(n)) : n \in AccountNames} |-> Null ]
    /\ backups = {}
    /\ machineIdFile = Null
    /\ usageStats = [ n \in AccountNames |-> 0 ]
    /\ usageCache = [ n \in AccountNames |-> Null ]
    /\ now = StartTime
    /\ ncalls = 0
    /\ calls = [ p \in Callers |-> IdleCall ]
    /\ secrets = [ n \in AccountNames |-> Null ]
    /\ useSecretStorage \in BOOLEAN

\* the user changes the setting
SetUseSecretStorage(b) ==
    /\ useSecretStorage # b
    /\ useSecretStorage' = b
    /\ UNCHANGED <<files, kiroToken, clientFiles, backups, machineIdFile, usageStats,
                   usageCache, now, ncalls, calls, secrets>>

\* migrateToSecretStorage / migrateFromSecretStorage up to the loop: the
\* directory is listed.  The call remembers the files as it found them, and
\* a migration back remembers the files as the migration before it found them.
MigrateStart(p, op) ==
    /\ ~Busy(p)
    /\ ncalls < MaxCalls
    /\ ncalls' = ncalls + 1
    /\ \E listing \in DirListings :
         LET c == NewCall(op, Null) @@
                    [ queue |-> listing, migrated |-> 0, preFiles |-> files,
                      origFiles |-> IF calls[p].op = "migrateTo" /\ calls[p].pc = "done"
                                    THEN calls[p].preFiles ELSE Null ]
         IN  calls' = [calls EXCEPT ![p] =
                IF listing = <<>> THEN Finish(c, "migrated", 0)
                ELSE [c EXCEPT !.pc = "mg_loop"]]
    /\ UNCHANGED <<files, kiroToken, clientFiles, backups, machineIdFile,
                   usageStats, usageCache, now, secretVars>>

\* the call after the file at the head of its queue: the loop goes on, or
\* the operation returns the number of files migrated
AfterFile(c, done) ==
    LET c2 == [c EXCEPT !.queue = Tail(@), !.migrated = @ + done]
    IN  IF c2.queue = <<>> THEN Finish(c2, "migrated", c2.migrated) ELSE c2

\* one round of the loop of migrateToSecretStorage: the file is read, its
\* secrets are handed to storeSecrets and the sanitized file is written
MigrateToFile(p) ==
    /\ calls[p].op = "migrateTo"
    /\ calls[p].pc = "mg_loop"
    /\ LET f == Head(calls[p].queue)
           tokenData == files[f]
       IN  /\ secrets' = StoreSecrets(tokenData.accountName, tokenData)
           /\ files' = [files EXCEPT ![f] = Sanitized(tokenData)]
           /\ calls' = [calls EXCEPT ![p] = AfterFile(calls[p], 1)]
    /\ UNCHANGED <<kiroToken, clientFiles, backups, machineIdFile, usageStats,
                   usageCache, now, ncalls, useSecretStorage>>

\* one round of the loop of migrateFromSecretStorage: without stored secrets
\* the file is skipped, else it is written with them and they are deleted
MigrateFromFile(p) ==
    /\ calls[p].op = "migrateFrom"
    /\ calls[p].pc = "mg_loop"
    /\ LET f == Head(calls[p].queue)
           tokenData == files[f]
           stored == GetSecrets(tokenData.accountName)
       IN  IF stored = Null
           THEN /\ calls' = [calls EXCEPT ![p] = AfterFile(calls[p], 0)]
                /\ UNCHANGED <<files, secrets>>
           ELSE /\ files' = [files EXCEPT ![f] = Restored(tokenData, stored)]
                /\ secrets' = [secrets EXCEPT ![tokenData.accountName] = Null]
                /\ calls' = [calls EXCEPT ![p] = AfterFile(calls[p], 1)]
    /\ UNCHANGED <<kiroToken, clientFiles, backups, machineIdFile, usageStats,
                   usageCache, now, ncalls, useSecretStorage>>

NextSecret ==
    \/ \E b \in BOOLEAN : SetUseSecretStorage(b)
    \/ \E p \in DOMAIN calls, op \in {"migrateTo", "migrateFrom"} : MigrateStart(p, op)
    \/ \E p \in DOMAIN calls : MigrateToFile(p)
    \/ \E p \in DOMAIN calls : MigrateFromFile(p)

SpecSecret == InitSecret /\ [][NextSecret]_vars

\* ------------------------------------------------------------------------
\* Usage cache.  The store itself (saveAccountUsage, invalidateAccountUsage,
\* getCachedAccountUsage, getAllCachedUsage of utils.ts) follows the
\* specification's UsageCache; the two readers are accounts.ts.
\* ------------------------------------------------------------------------
\* a usage snapshot to put: its usage figure (Null when it has none) and
\* whether the probe it comes from reported a suspension
SomeUsage == 10
Snapshots ==
    { [ currentUsage |-> u, suspended |-> b ] :
        u \in {Null, <<SomeUsage>>}, b \in {"true", "false", "unknown"} }

\* put(name, snapshot): overwrites and clears staleness; a recorded ban is
\* kept unless the snapshot explicitly says suspended = false
SaveAccountUsage(name, snap) ==
    /\ usageCache' = [usageCache EXCEPT ![name] =
          LET old == usageCache[name]
              keep == snap.suspended = "unknown" /\ old # Null /\ old.isBanned
          IN  [ currentUsage |-> snap.currentUsage,
                isBanned |-> IF keep THEN TRUE ELSE snap.suspended = "true",
                banReason |-> IF keep THEN old.banReason
                              ELSE IF snap.suspended = "true" THEN <<"TEMPORARILY_SUSPENDED">>
                              ELSE Null,
                suspended |-> IF keep THEN old.suspended ELSE snap.suspended,
                stale |-> FALSE ]]
    /\ UNCHANGED <<files, kiroToken, clientFiles, backups, machineIdFile,
                   usageStats, now, ncalls, calls, secretVars>>

\* markUsageStale -> invalidate(name): marks the entry stale, keeps it
MarkUsageStale(name) ==
    /\ usageCache[name] # Null
    /\ usageCache' = [usageCache EXCEPT ![name].stale = TRUE]
    /\ UNCHANGED <<files, kiroToken, clientFiles, backups, machineIdFile,
                   usageStats, now, ncalls, calls, secretVars>>

\* getCachedAccountUsage(name)
GetCachedAccountUsage(name) ==
    IF name \in DOMAIN usageCache THEN usageCache[name] ELSE Null

\* x ?? d for an optional number
OrElse(x, d) == IF x = Null THEN d ELSE x[1]

UnknownUsageState ==
    [ currentUsage |-> UnknownUsage, usageLimit |-> DefaultUsageLimit,
      isBanned |-> FALSE, banReason |-> Null, suspended |-> "unknown" ]

\* the stale flag is looked at before the ban
LoadSingleAccountUsage_StaleFirst(name) ==
    LET cached == GetCachedAccountUsage(name)
    IN  IF cached # Null /\ ~cached.stale
        THEN [ currentUsage |-> OrElse(cached.currentUsage, UnknownUsage),
               usageLimit |-> DefaultUsageLimit,
               isBanned |-> cached.isBanned, banReason |-> cached.banReason,
               suspended |-> cached.suspended ]
        ELSE UnknownUsageState

\* loadSingleAccountUsage: the AccountUsage shown for an account (an absent
\* isBanned is FALSE, an absent suspended "unknown")
LoadSingleAccountUsage(name) ==
    LET cached == GetCachedAccountUsage(name)
    IN  IF cached # Null /\ cached.isBanned
        THEN [ currentUsage |-> OrElse(cached.currentUsage, UnknownUsage),
               usageLimit |-> DefaultUsageLimit,
               isBanned |-> TRUE, banReason |-> cached.banReason,
               suspended |-> cached.suspended ]
        ELSE IF cached # Null /\ ~cached.stale
        THEN [ currentUsage |-> OrElse(cached.currentUsage, UnknownUsage),
               usageLimit |-> DefaultUsageLimit,
               isBanned |-> cached.isBanned, banReason |-> cached.banReason,
               suspended |-> cached.suspended ]
        ELSE UnknownUsageState

\* loadAccounts: the usage of the account of token file f
LoadAccountsUsage(f) ==
    LET cached == GetCachedAccountUsage(files[f].accountName)
    IN  IF cached # Null /\ ~cached.stale
        THEN [ currentUsage |-> OrElse(cached.currentUsage, UnknownUsage),
               usageLimit |-> DefaultUsageLimit,
               isBanned |-> cached.isBanned, banReason |-> cached.banReason,
               suspended |-> cached.suspended ]
        ELSE IF cached # Null /\ cached.isBanned
        THEN [ currentUsage |-> OrElse(cached.currentUsage, UnknownUsage),
               usageLimit |-> DefaultUsageLimit,
               isBanned |-> TRUE, banReason |-> cached.banReason,
               suspended |-> "unknown" ]
        ELSE UnknownUsageState

NextCache ==
    \/ \E name \in AccountNames, snap \in Snapshots : SaveAccountUsage(name, snap)
    \/ \E name \in AccountNames : MarkUsageStale(name)

SpecCache == Init /\ [][NextCache]_vars

\* ------------------------------------------------------------------------
\* Properties
\* ------------------------------------------------------------------------
SwitchDone(p) == calls[p].op = "switch" /\ calls[p].pc = "done"

\* the refresh inside the switch of call c failed
RefreshFailed(c) == c.refreshResult # Null /\ ~c.refreshResult.success

\* the refresh inside the switch of call c succeeded
RefreshSucceeded(c) == c.refreshResult # Null /\ c.refreshResult.success

\* the call left the Kiro token, the machine id and the usage counters as
\* they were when it started
LeftUntouched(c) ==
    /\ kiroToken = c.pre.kiroToken
    /\ machineIdFile = c.pre.machineIdFile
    /\ usageStats = c.pre.usageStats

\* C1: when switchToAccount has returned, whatever the refresh, the ban
\* check and the storage writes did, either the Kiro token holds the target's
\* credentials and the machine-id file holds the target's machine id, or
\* both are as they were before the call.
C1_AllOrNothing ==
    \A p \in DOMAIN calls :
        SwitchDone(p) =>
            LET c == calls[p]
            IN  \/ /\ c.path # Null
                   /\ kiroToken = KiroTokenOf(files[c.path])
                   /\ machineIdFile = files[c.path].machineId
                \/ /\ kiroToken = c.pre.kiroToken
                   /\ machineIdFile = c.pre.machineIdFile

\* C2: a switch that aborts before activation (account not found, refresh
\* rejected as banned or as an invalid grant, ban check reports a ban, refresh
\* failed and the token is past its invalidation offset) leaves the Kiro
\* token, the machine-id file and the usage counters as they were.
C2_AbortLeavesStateUntouched ==
    \A p \in DOMAIN calls :
        LET c == calls[p]
        IN  ( /\ SwitchDone(p)
              /\ \/ c.path = Null
                 \/ /\ RefreshFailed(c)
                    /\ \/ c.refreshResult.isBanned
                       \/ c.refreshResult.error = "InvalidGrantException"
                       \/ IsTokenTrulyInvalid(c.tokenData, c.doneAt)
                 \/ (c.banCheck # Null /\ c.banCheck.isBanned) )
            => LeftUntouched(c)

\* a switch refused because the refresh failed past the invalidation offset,
\* while another account stays active
C2_Witness ==
    \E p \in DOMAIN calls :
        /\ SwitchDone(p)
        /\ RefreshFailed(calls[p])
        /\ ~calls[p].refreshResult.isBanned
        /\ calls[p].refreshResult.error = "NetworkError"
        /\ IsTokenTrulyInvalid(calls[p].tokenData, calls[p].doneAt)
        /\ calls[p].pre.kiroToken # Null
        /\ kiroToken = calls[p].pre.kiroToken

\* C3: when the refresh inside the switch succeeded and the ban check then
\* reports the account banned, the switch returns success = false with
\* isBanned = true and the Kiro token is not overwritten.
C3_BannedByProbe ==
    \A p \in DOMAIN calls :
        LET c == calls[p]
        IN  ( /\ SwitchDone(p)
              /\ RefreshSucceeded(c)
              /\ c.banCheck # Null /\ c.banCheck.isBanned )
            => /\ c.result # Null
               /\ ~c.result.success
               /\ c.result.isBanned
               /\ kiroToken = c.pre.kiroToken

\* a switch refused by the ban check while another account is active
C3_Witness ==
    \E p \in DOMAIN calls :
        /\ SwitchDone(p)
        /\ RefreshSucceeded(calls[p])
        /\ calls[p].banCheck # Null /\ calls[p].banCheck.isBanned
        /\ calls[p].pre.kiroToken # Null
        /\ ~calls[p].result.success

\* C4: a step of a switch whose refresh succeeded writes the Kiro token only
\* as the step in which the ban check returns, and that ban check was sent
\* after the refresh with the refreshed access token.
C4_ProbeBeforeActivation ==
    [][ \A p \in DOMAIN calls :
          ( /\ calls'[p].op = "switch" /\ calls'[p].pc = "done"
            /\ calls[p].pc # "done"
            /\ calls'[p].exit = "activated"
            /\ RefreshSucceeded(calls'[p]) )
          => /\ calls[p].pc = "sw_probe"
             /\ calls[p].net = << <<"refresh", calls[p].net[1][2]>>,
                                  <<"probe", <<"at", Null, calls[p].id>> >> >>
             /\ calls'[p].banCheck # Null
             /\ kiroToken'.accessToken = <<"at", Null, calls[p].id>> ]_vars

\* a switch that refreshed, probed and activated
C4_Witness ==
    \E p \in DOMAIN calls :
        /\ SwitchDone(p)
        /\ calls[p].exit = "activated"
        /\ RefreshSucceeded(calls[p])
        /\ Len(calls[p].net) = 2

\* C5: a token file's machine id, once set, never changes, and every
\* successful switch to the account puts that machine id into the
\* machine-id file.
C5_IdentifierStable ==
    [][ /\ \A f \in Files :
             (files[f] # Null /\ files[f].machineId # Null)
             => (files'[f] # Null /\ files'[f].machineId = files[f].machineId)
        /\ \A p \in DOMAIN calls :
             ( /\ calls'[p] # calls[p]
               /\ calls'[p].op = "switch" /\ calls'[p].pc = "done"
               /\ calls'[p].exit = "activated" )
             => LET f == calls'[p].path
                IN  /\ machineIdFile' = files'[f].machineId
                    /\ files[f].machineId # Null => machineIdFile' = files[f].machineId ]_vars

\* the second successful switch to an account: its machine id, assigned by
\* the first, is active again
C5_Witness ==
    \E p \in DOMAIN calls :
        /\ SwitchDone(p)
        /\ calls[p].exit = "activated"
        /\ usageStats[files[calls[p].path].accountName] = 2
        /\ machineIdFile = <<"mid", 1>>
        /\ calls[p].id = 2

\* C6: if the refresh inside the switch fails as InvalidGrant, as
\* ExpiredToken or with a recognized ban message, the switch fails and the
\* Kiro token is not written, however far the stored token is from expiry.
C6_FatalRefreshAborts ==
    \A p \in DOMAIN calls :
        LET c == calls[p]
        IN  ( /\ SwitchDone(p)
              /\ RefreshFailed(c)
              /\ \/ c.refreshResult.error \in {"InvalidGrantException", "ExpiredTokenException"}
                 \/ c.refreshResult.isBanned )
            => /\ c.result # Null /\ ~c.result.success
               /\ kiroToken = c.pre.kiroToken

\* C7: a refresh failure other than SlowDown (rate limit), NetworkError and
\* InternalServer ends the switch: no fallback to the stored token, the Kiro
\* token is not written.
C7_OnlyTransientFallsBack ==
    \A p \in DOMAIN calls :
        LET c == calls[p]
        IN  ( /\ SwitchDone(p)
              /\ RefreshFailed(c)
              /\ c.refreshResult.error \in {"InvalidClientException", "UnauthorizedClientException",
                                           "InvalidRequestException", "UnknownError"} )
            => /\ c.result # Null /\ ~c.result.success
               /\ kiroToken = c.pre.kiroToken

\* a step that stores a refreshed token in file f (only a refresh changes
\* the access token of a token file)
Refreshes(f) ==
    /\ files[f] # Null /\ files'[f] # Null
    /\ files'[f].accessToken # files[f].accessToken

\* C8 as stated: a successful refresh strictly increases the stored
\* expiresAt, whatever it was and whatever expiresIn the broker returns.
C8_ExpiresAtStrictlyIncreases ==
    [][ \A f \in Files :
          (Refreshes(f) /\ files[f].expiresAt # Null)
          => files'[f].expiresAt[1] > files[f].expiresAt[1] ]_vars

\* C8 amended: a successful refresh sets expiresAt to the time of the refresh
\* plus the returned expiresIn (3600 when none is returned), which is later
\* than the time of the refresh; so expiresAt strictly increases whenever the
\* stored token had expired.
C8_ExpiresAtIsNowPlusExpiresIn ==
    [][ \A f \in Files :
          Refreshes(f)
          => /\ files'[f].expiresIn # Null
             /\ files'[f].expiresAt = <<now + files'[f].expiresIn[1]>>
             /\ files'[f].expiresAt[1] > now
             /\ (files[f].expiresAt # Null /\ files[f].expiresAt[1] <= now)
                => files'[f].expiresAt[1] > files[f].expiresAt[1] ]_vars

\* a refresh has replaced a longer lifetime by a shorter one
C8_Witness ==
    \E p \in DOMAIN calls :
        /\ calls[p].pc = "done" /\ calls[p].exit = "refreshed"
        /\ calls[p].tokenData.expiresAt # Null
        /\ files[calls[p].path].expiresAt[1] < calls[p].tokenData.expiresAt[1]

\* C9: refreshAccountToken and checkAccountHealth on an account that lacks
\* the refresh token, the client id or the client secret fail with "Missing
\* credentials" and send nothing to the network.
C9_MissingCredentials ==
    \A p \in DOMAIN calls :
        LET c == calls[p]
        IN  ( /\ c.pc # "idle" /\ c.op \in {"refresh", "health"}
              /\ c.path # Null
              /\ \/ c.tokenData.refreshToken = Null
                 \/ c.tokenData.clientId = Null
                 \/ c.tokenData.clientSecret = Null )
            => /\ c.pc = "done"
               /\ c.net = <<>>
               /\ files[c.path] = c.tokenData
               /\ c.op = "refresh" =>
                    /\ ~c.result.success
                    /\ c.result.errorMessage = <<"Missing credentials">>
                    /\ c.result.isInvalidCredentials
               /\ c.op = "health" =>
                    /\ ~c.result.isHealthy
                    /\ ~c.result.hasCredentials

\* a refresh of an account that has a refresh token and a client id but no
\* client secret has returned
C9_Witness ==
    \E p \in DOMAIN calls :
        /\ calls[p].pc = "done" /\ calls[p].op = "refresh"
        /\ calls[p].path # Null
        /\ calls[p].tokenData.clientSecret = Null
        /\ calls[p].tokenData.refreshToken # Null
        /\ calls[p].result.errorMessage = <<"Missing credentials">>

\* both readers of the cache report the account as banned
ReadsBanned(name) ==
    /\ LoadSingleAccountUsage(name).isBanned
    /\ \A f \in ExistingFiles :
         files[f].accountName = name => LoadAccountsUsage(f).isBanned

\* C10: once a suspension is recorded in an account's cache entry, both
\* readers report the account as banned after every later step, stale or
\* not, unless that step put a snapshot that says suspended = false.
C10_StickyBan ==
    [][ \A name \in AccountNames :
          (usageCache[name] # Null /\ usageCache[name].isBanned)
          => \/ ReadsBanned(name)'
             \/ /\ usageCache'[name].suspended = "false"
                /\ ~usageCache'[name].stale
                /\ ~LoadSingleAccountUsage(name)'.isBanned ]_vars

\* a recorded ban whose entry has been marked stale is still read as a ban
C10_Witness ==
    \E name \in AccountNames :
        /\ usageCache[name] # Null
        /\ usageCache[name].isBanned
        /\ usageCache[name].stale
        /\ ReadsBanned(name)

\* the delete of call c was asked for an account no token file carried
DeleteOfAbsent(c) ==
    /\ c.op = "delete"
    /\ c.pc = "done"
    /\ \A f \in Files : c.preFiles[f] = Null \/ c.preFiles[f].accountName # c.name

\* C11: deleteAccount for a name that no account has (a second delete of the
\* same name included) changes nothing and reports success.
C11_DeleteIdempotent ==
    \A p \in DOMAIN calls :
        DeleteOfAbsent(calls[p]) =>
            /\ calls[p].result = TRUE
            /\ files = calls[p].preFiles
            /\ usageStats = calls[p].pre.usageStats

\* C12: at every point of a switchToAccount call, the Kiro token file and the
\* client file it refers to are either both as before the call (the Kiro
\* token is the one the call found) or both the target's.
C12_AtomicActivation ==
    \A p \in DOMAIN calls :
        calls[p].op = "switch" =>
            LET c == calls[p]
                td == c.tokenData
            IN  \/ kiroToken = c.pre.kiroToken
                \/ /\ td # Null
                   /\ kiroToken = KiroTokenOf(td)
                   /\ (td.clientId # Null /\ td.clientSecret # Null)
                        => clientFiles[ClientIdHashOf(td)] = ClientDataOf(td)

\* C13: every switchToAccount, refreshAccountToken and checkAccountHealth
\* call that has started eventually returns, also when the broker never
\* answers the refresh request.
C13_EveryCallReturns ==
    \A p \in Callers :
        (calls[p].pc \notin {"idle", "done"}) ~> (calls[p].pc = "done")

\* C14: every switchToAccount and refreshAccountToken call that ends, ends
\* with a result object (success, or success = false with an error message),
\* never with an exception, also when a storage write fails.
C14_StructuredResult ==
    \A p \in DOMAIN calls :
        (calls[p].pc = "done" /\ calls[p].op \in {"switch", "refresh"}) =>
            /\ calls[p].exit # "threw"
            /\ calls[p].result # Null
            /\ calls[p].result.success \/ calls[p].result.errorMessage # Null

\* C15: whatever the broker's status and error envelope, the error a failed
\* refreshAccountToken reports is a member of the fixed error taxonomy.
C15_ClosedTaxonomy ==
    \A p \in DOMAIN calls :
        (calls[p].op = "refresh" /\ calls[p].pc = "done" /\ ~calls[p].result.success) =>
            calls[p].result.error \in OIDCErrorType

\* the phrases that mark a ban in a broker message
BanPhrases ==
    { "Kiro access not available", "NewUserAccessPausedError", "account is blocked",
      "account is suspended", "couldn't process your request", "account issue",
      "unable to refresh" }

\* the refreshAccountToken call of p has ended in a failure
RefreshCallFailed(p) ==
    calls[p].op = "refresh" /\ calls[p].exit = "refreshFailed"

\* C16: a failed refresh with error InvalidGrantException whose message says
\* "unable to refresh your session" is reported as banned, one with
\* InvalidGrantException and no ban phrase in its message is not, and one with
\* AccessDeniedException always is.
C16_BanClassification ==
    \A p \in DOMAIN calls :
        RefreshCallFailed(p) =>
            LET r == calls[p].result
            IN  /\ (r.error = "InvalidGrantException"
                    /\ MsgIncludes(r.errorMessage, "unable to refresh")) => r.isBanned
                /\ (r.error = "InvalidGrantException"
                    /\ \A ph \in BanPhrases : ~MsgIncludes(r.errorMessage, ph)) => ~r.isBanned
                /\ r.error = "AccessDeniedException" => r.isBanned

\* the three cases occur: an InvalidGrantException with the phrase, reported
\* as banned, is the one looked for
C16_Witness ==
    \E p \in DOMAIN calls :
        /\ RefreshCallFailed(p)
        /\ calls[p].result.error = "InvalidGrantException"
        /\ calls[p].result.errorMessage = MsgUnableToRefresh
        /\ calls[p].result.isBanned

\* C17: after markUsageStale the entry is still there, marked stale, and the
\* readers of the cache (loadSingleAccountUsage, loadAccounts) still return
\* its stored usage figure rather than the unknown state.
C17_StaleStillReturned ==
    \A name \in AccountNames :
        (usageCache[name] # Null /\ usageCache[name].stale) =>
            /\ LoadSingleAccountUsage(name).currentUsage
                 = OrElse(usageCache[name].currentUsage, UnknownUsage)
            /\ \A f \in ExistingFiles :
                 files[f].accountName = name =>
                    LoadAccountsUsage(f).currentUsage
                      = OrElse(usageCache[name].currentUsage, UnknownUsage)

\* the switch of p activated the account after its refresh had succeeded
\* (and so after the ban check had found no ban)
ActivatedAfterRefresh(p) ==
    SwitchDone(p) /\ calls[p].exit = "activated" /\ RefreshSucceeded(calls[p])

\* C18: after a switch whose refresh succeeded and whose ban check found no
\* ban, the token file's expiresAt is the time of the refresh plus the
\* expiresIn the refresh returned, and the Kiro token's accessToken is the
\* one the refresh returned, which is the token file's too and is not the
\* one stored before the switch.
C18_ActivatesRefreshedToken ==
    \A p \in DOMAIN calls :
        ActivatedAfterRefresh(p) =>
            LET c == calls[p]
            IN  /\ files[c.path].expiresAt = <<c.refreshedAt + c.oidc.expiresIn[1]>>
                /\ kiroToken.accessToken = c.oidc.accessToken
                /\ files[c.path].accessToken = c.oidc.accessToken
                /\ kiroToken.accessToken # c.storedAccessToken

\* such a switch, ending later than its refresh
C18_Witness ==
    \E p \in DOMAIN calls :
        /\ ActivatedAfterRefresh(p)
        /\ calls[p].doneAt > calls[p].refreshedAt
        /\ calls[p].oidc.expiresIn = <<ShortExpiresIn>>
        /\ kiroToken.accessToken = calls[p].oidc.accessToken

\* the switch of p found an account without refresh credentials
SwitchWithoutCredentials(p) ==
    /\ SwitchDone(p)
    /\ calls[p].path # Null
    /\ LET td == files[calls[p].path]
       IN  td.refreshToken = Null \/ td.clientId = Null \/ td.clientSecret = Null

\* C19: a switch to an account that lacks the refresh token, the client id
\* or the client secret sends neither a refresh nor a ban check, activates
\* the account with its stored tokens and returns success.
C19_NoCredentialsSkipsVerification ==
    \A p \in DOMAIN calls :
        SwitchWithoutCredentials(p) =>
            LET c == calls[p]
            IN  /\ c.net = <<>>
                /\ c.exit = "activated"
                /\ c.result.success
                /\ kiroToken = KiroTokenOf(files[c.path])
                /\ kiroToken.accessToken = c.storedAccessToken
                /\ machineIdFile = files[c.path].machineId

\* such a switch, of an account that has a client id and secret but no
\* refresh token
C19_Witness ==
    \E p \in DOMAIN calls :
        /\ SwitchWithoutCredentials(p)
        /\ files[calls[p].path].refreshToken = Null
        /\ calls[p].result.success
        /\ kiroToken.accessToken = calls[p].storedAccessToken

\* C20: a step that overwrites an existing Kiro token leaves its prior
\* contents among the backups, and no step loses the contents of a backup,
\* also when several switches fall into the same clock second.
C20_BackupsKept ==
    [][ /\ (kiroToken # Null /\ kiroToken' # kiroToken)
            => \E b \in backups' : b[2] = kiroToken
        /\ \A b \in backups : \E b2 \in backups' : b2[2] = b[2] ]_vars

\* the switch of p has ended after its ban check was answered
ProbeAnswered(p) == SwitchDone(p) /\ calls[p].probe # Null

\* C21: unless the ban check's answer is a 403 whose reason names
\* a suspension, the check reports no ban and the switch activates the
\* account.
C21_AmbiguousProbeNotBanned ==
    \A p \in DOMAIN calls :
        (/\ ProbeAnswered(p)
         /\ ~(calls[p].probe.status = 403
              /\ calls[p].probe.reason \in {"TEMPORARILY_SUSPENDED", "ACCOUNT_SUSPENDED"}))
        => /\ ~calls[p].banCheck.isBanned
           /\ calls[p].exit = "activated"

\* the Kiro token is the one written for the account of token file f
HoldsSession(f) == kiroToken # Null /\ kiroToken = KiroTokenOf(files[f])

\* C22: loadAccounts returns every account once, the account whose session
\* the Kiro token holds first and the others in the order of their account
\* names; with no token file it returns the empty list.
C22_ActiveFirstThenByName ==
    \A p \in DOMAIN calls :
        (calls[p].op = "list" /\ calls[p].pc = "done") =>
            LET s == calls[p].result
            IN  /\ {s[i] : i \in 1..Len(s)} = ExistingFiles
                /\ Len(s) = Cardinality(ExistingFiles)
                /\ \A i, j \in 1..Len(s) :
                     i < j => \/ HoldsSession(s[i])
                              \/ /\ ~HoldsSession(s[j])
                                 /\ LocaleCompare(files[s[i]].accountName,
                                                  files[s[j]].accountName) <= 0

\* C23: after every successful switchToAccount the machine-id file holds
\* the machine id stored in the target's token file, and no two token files
\* store the same machine id (so a switch to another account changes the
\* machine-id file).
C23_DeviceIdentityFollowsAccount ==
    /\ \A p \in DOMAIN calls :
         (SwitchDone(p) /\ calls[p].exit = "activated") =>
            LET c == calls[p]
            IN  /\ files[c.path].machineId # Null
                /\ machineIdFile = files[c.path].machineId
    /\ \A f, g \in ExistingFiles :
         (f # g /\ files[f].machineId # Null) => files[f].machineId # files[g].machineId

\* the token file of call c holds what the refresh inside the call returned
\* (the refresh token sent, when the broker returned none)
HoldsRefreshedFields(c) ==
    /\ files[c.path].accessToken = c.oidc.accessToken
    /\ files[c.path].refreshToken = IF c.oidc.refreshToken # Null THEN c.oidc.refreshToken
                                    ELSE c.net[1][2]
    /\ files[c.path].expiresAt = <<c.refreshedAt + c.oidc.expiresIn[1]>>

\* C24: from the moment switchToAccount sends the ban check, the token file
\* holds the refreshed accessToken, refreshToken and expiresAt, and it still
\* holds them when the switch has ended, be it refused as banned or with a
\* failed activation write.
C24_RefreshedFieldsPersisted ==
    \A p \in DOMAIN calls :
        (calls[p].op = "switch" /\ calls[p].pc \in {"sw_probe", "sw_client", "done"}
         /\ calls[p].oidc # Null)
        => HoldsRefreshedFields(calls[p])

\* a switch refused by the ban check whose token file holds a rotated
\* refresh token
C24_Witness ==
    \E p \in DOMAIN calls :
        /\ SwitchDone(p)
        /\ calls[p].exit = "probeBanned"
        /\ calls[p].oidc.refreshToken # Null
        /\ HoldsRefreshedFields(calls[p])

\* C25: when switchToAccount has refused an account because the ban check
\* reported it suspended, the usage cache holds the ban: reading the
\* account's usage reports it as banned.
C25_ProbeBanRecorded ==
    \A p \in DOMAIN calls :
        (SwitchDone(p) /\ calls[p].exit = "probeBanned") =>
            LoadSingleAccountUsage(files[calls[p].path].accountName).isBanned

\* the account a Kiro token was written for, read from its clientIdHash
AccountOfSession(k) == k.clientIdHash[2][2]

\* C26: after a successful switchToAccount that replaced the session of
\* another account, the usage cache entry of that account, if it has one, is
\* marked stale.
C26_PreviousMarkedStale ==
    \A p \in DOMAIN calls :
        (/\ SwitchDone(p)
         /\ calls[p].exit = "activated"
         /\ calls[p].pre.kiroToken # Null
         /\ calls[p].pre.kiroToken.clientIdHash # Null
         /\ calls[p].pre.kiroToken.clientIdHash # kiroToken.clientIdHash)
        => LET prev == AccountOfSession(calls[p].pre.kiroToken)
           IN  usageCache[prev] # Null => usageCache[prev].stale


\* the refresh errors that say nothing about the account or its credentials
TransientErrors == {"SlowDownException", "InternalServerException", "NetworkError"}

\* the refresh inside the switch of call c failed with a transient error
RefreshFailedTransiently(c) ==
    /\ RefreshFailed(c)
    /\ c.refreshResult.error \in TransientErrors
    /\ ~c.refreshResult.isBanned

\* the stored token of call c is at most the invalidation offset past its
\* expiresAt when the call returns
WithinGraceWindow(c) ==
    /\ c.tokenData.expiresAt # Null
    /\ c.doneAt <= c.tokenData.expiresAt[1] + AUTH_TOKEN_INVALIDATION_OFFSET_SECONDS

\* C27: when the refresh inside the switch fails with a transient error, the
\* switch activates the stored token if and only if the time is at most
\* expiresAt plus 180 seconds; later than that, or with no expiresAt, the
\* switch returns a failure and activates nothing.
C27_GraceWindowFallback ==
    \A p \in DOMAIN calls :
        LET c == calls[p]
        IN  (SwitchDone(p) /\ RefreshFailedTransiently(c)) =>
                IF WithinGraceWindow(c)
                THEN /\ c.exit = "activated"
                     /\ c.result.success
                     /\ kiroToken # Null
                     /\ kiroToken.accessToken = c.storedAccessToken
                ELSE /\ c.exit = "trulyInvalid"
                     /\ ~c.result.success
                     /\ LeftUntouched(c)

\* a switch whose refresh failed on the network exactly 180 seconds after
\* expiresAt, and that activated the stored token
C27_Witness ==
    \E p \in DOMAIN calls :
        /\ SwitchDone(p)
        /\ RefreshFailedTransiently(calls[p])
        /\ calls[p].tokenData.expiresAt # Null
        /\ calls[p].doneAt = calls[p].tokenData.expiresAt[1] + AUTH_TOKEN_INVALIDATION_OFFSET_SECONDS
        /\ calls[p].exit = "activated"

\* a switch whose refresh failed transiently 181 seconds after expiresAt, and
\* that was refused
C27_WitnessPastWindow ==
    \E p \in DOMAIN calls :
        /\ SwitchDone(p)
        /\ RefreshFailedTransiently(calls[p])
        /\ calls[p].tokenData.expiresAt # Null
        /\ calls[p].doneAt = calls[p].tokenData.expiresAt[1] + AUTH_TOKEN_INVALIDATION_OFFSET_SECONDS + 1
        /\ calls[p].exit = "trulyInvalid"


\* call p returns from switchToAccount in this step
SwitchReturns(p) ==
    /\ calls'[p].op = "switch"
    /\ calls'[p].pc = "done"
    /\ (calls[p].pc # "done" \/ calls[p].id # calls'[p].id)

\* a switch that activates account n returns success in this step
SwitchSucceedsFor(n) ==
    \E p \in Callers :
        /\ SwitchReturns(p)
        /\ calls'[p].exit = "activated"
        /\ calls'[p].result.success
        /\ calls'[p].tokenData.accountName = n

\* C28: the usage counter of an account goes up by exactly one in the step
\* in which a switch to that account returns success, and is left as it is
\* by every other step (failed and aborted switches, refreshes, health
\* checks) for as long as the account's token file exists.
C28_UsageCounterMonotonic ==
    [][\A n \in AccountNames :
          IF SwitchSucceedsFor(n)
          THEN usageStats'[n] = usageStats[n] + 1
          ELSE usageStats'[n] = usageStats[n] \/ files'[FileOf(n)] = Null]_vars

\* the second call, a switch that took the counter of its account from 0 to 1
C28_Witness ==
    \E p \in DOMAIN calls :
        /\ SwitchDone(p)
        /\ calls[p].exit = "activated"
        /\ calls[p].id = MaxCalls
        /\ usageStats[calls[p].tokenData.accountName] = 1
        /\ calls[p].pre.usageStats[calls[p].tokenData.accountName] = 0


\* how many of the calls of refreshAccountToken that reached the broker were
\* for token file f
BrokerAttempts(c, f) ==
    Cardinality({i \in 1..Len(c.attempts) :
                    /\ c.attempts[i].path = f
                    /\ c.attempts[i].outcome \in {"refreshed", "refreshFailed"}})

\* C29: refreshAllAccounts has at most one refresh in flight, and when it
\* returns, every account that had full refresh credentials when it started
\* has been refreshed exactly once, whether the refreshes before it failed or
\* not, and no other account has been.
C29_RefreshAllOncePerAccount ==
    \A p \in DOMAIN calls :
        calls[p].op = "refreshAll" =>
            /\ Len(calls[p].net) <= 1
            /\ calls[p].pc = "done" =>
                  \A f \in Files :
                      BrokerAttempts(calls[p], f) = IF f \in calls[p].eligible THEN 1 ELSE 0


\* call p returns from a switch that activated its account in this step
SwitchActivates(p) == SwitchReturns(p) /\ calls'[p].exit = "activated"

\* callers p and q have made the only two calls, switches that found
\* different accounts, and both have returned
TwoSwitchesReturned(p, q) ==
    /\ p # q
    /\ ncalls = Cardinality(PairCallers)
    /\ SwitchDone(p) /\ SwitchDone(q)
    /\ calls[p].path # Null /\ calls[q].path # Null
    /\ calls[p].path # calls[q].path

\* C30: with two switches interleaving at their awaits, the step in which a
\* switch returns success leaves the Kiro token holding the session of that
\* call's account and the machine-id file holding that call's machine id,
\* and no other step changes either: at all times both are those of the
\* call that activated last.  So once two switches to different accounts
\* have returned, one of them having activated, the Kiro token is the
\* session of one account's token file and the machine-id file holds the
\* machine id of that same token file.
C30_LastWriterWins ==
    /\ [][IF \E p \in PairCallers : SwitchActivates(p)
           THEN \A p \in PairCallers :
                    SwitchActivates(p) =>
                        /\ kiroToken' = KiroTokenOf(calls'[p].tokenData)
                        /\ machineIdFile' = calls'[p].tokenData.machineId
           ELSE kiroToken' = kiroToken /\ machineIdFile' = machineIdFile]_vars
    /\ [](\A p, q \in PairCallers :
            (TwoSwitchesReturned(p, q) /\ "activated" \in {calls[p].exit, calls[q].exit}) =>
                \E r \in {p, q} :
                    /\ calls[r].exit = "activated"
                    /\ kiroToken = KiroTokenOf(files[calls[r].path])
                    /\ machineIdFile = files[calls[r].path].machineId)

\* two switches to different accounts have both activated, and the one
\* started first activated last: the session and the machine id are its
C30_Witness ==
    \E p, q \in DOMAIN calls :
        /\ p # q
        /\ SwitchDone(p) /\ calls[p].exit = "activated"
        /\ SwitchDone(q) /\ calls[q].exit = "activated"
        /\ calls[p].path # calls[q].path
        /\ calls[p].id < calls[q].id
        /\ kiroToken = KiroTokenOf(calls[p].tokenData)
        /\ machineIdFile = files[calls[p].path].machineId
        /\ machineIdFile # files[calls[q].path].machineId


\* the token fields of an account record
TokenFields(td) ==
    IF td = Null THEN Null
    ELSE <<td.accessToken, td.refreshToken, td.expiresAt>>

\* C31: the record write of a switch that stores the machine id leaves the
\* record's accessToken, refreshToken and expiresAt as they are in the file
\* at that moment, whatever refresh or health check of the same account has
\* completed while the switch was awaiting.
C31_SwitchKeepsStoredTokens ==
    [][\A p \in PairCallers :
          SwitchActivates(p) =>
              \A f \in Files : TokenFields(files'[f]) = TokenFields(files[f])]_vars


\* call p returns from refreshAccountToken or checkAccountHealth in this step
RefreshOrHealthReturns(p) ==
    /\ calls[p].pc \in {"rf_wait", "ch_wait"}
    /\ calls'[p].pc = "done"

\* C32: when a refresh or a health check that was in flight while a switch
\* stored the account's machine id completes, the machine id stored in the
\* account record is still there and still the same.
C32_MachineIdSurvivesRefresh ==
    [][\A p \in PairCallers :
          RefreshOrHealthReturns(p) =>
              \A f \in Files :
                  (files[f] # Null /\ files[f].machineId # Null) =>
                      (files'[f] # Null /\ files'[f].machineId = files[f].machineId)]_vars


\* call p was given the name of an account whose record exists, and returned
\* having activated or refreshed an account
ResolvedByName(p) ==
    /\ calls[p].op \in {"switch", "refresh"}
    /\ calls[p].pc = "done"
    /\ calls[p].exit \in {"activated", "refreshed"}
    /\ calls[p].name \in AccountNames
    /\ files[FileOf(calls[p].name)] # Null
    /\ files[FileOf(calls[p].name)].accountName = calls[p].name

\* C33: a switch or a refresh by the name of an existing account acts on the
\* record with that accountName, never on another account whose file name
\* contains the name.
C33_TargetResolution ==
    \A p \in DOMAIN calls :
        ResolvedByName(p) =>
            /\ calls[p].path = FileOf(calls[p].name)
            /\ calls[p].tokenData.accountName = calls[p].name


\* the delete of call c reported success
DeleteSucceeded(c) == c.op = "delete" /\ c.pc = "done" /\ c.result = TRUE

\* C34: when deleteAccount(name) has reported success, the record named name
\* is gone together with its usage count, every other record and count, the
\* Kiro token and the machine-id file are as they were before the call, and
\* loadAccounts no longer returns the account.
C34_DeleteRemovesOnlyTarget ==
    \A p \in DOMAIN calls :
        DeleteSucceeded(calls[p]) =>
            LET c == calls[p]
            IN  /\ c.name \in AccountNames
                /\ c.preFiles[FileOf(c.name)] # Null
                /\ files = [c.preFiles EXCEPT ![FileOf(c.name)] = Null]
                /\ usageStats = [c.pre.usageStats EXCEPT ![c.name] = 0]
                /\ kiroToken = c.pre.kiroToken
                /\ machineIdFile = c.pre.machineIdFile
                /\ \A accounts \in LoadAccounts :
                     \A i \in 1..Len(accounts) : files[accounts[i]].accountName # c.name


\* the accounts loadAccounts reports as active
ActiveFiles == {f \in ExistingFiles : IsActive(files[f])}

\* C35: the step in which a switch returns success makes its account the one
\* and only account reported active, and while a Kiro token exists the
\* return of a refresh or of a health check, whatever the broker answered,
\* does not change which accounts are reported active.
C35_ActiveUntilNextSwitch ==
    [][IF \E p \in DOMAIN calls : SwitchActivates(p)
       THEN \A p \in DOMAIN calls :
                SwitchActivates(p) => ActiveFiles' = {calls'[p].path}
       ELSE (kiroToken # Null /\ \E p \in DOMAIN calls : RefreshOrHealthReturns(p))
                => ActiveFiles' = ActiveFiles]_vars


\* C36: with no Kiro token (the file is absent or unreadable), loadAccounts
\* reports none of the accounts it returns as active, the accounts whose
\* record has no refreshToken included.
C36_NoSessionNoActive ==
    \A p \in DOMAIN calls :
        (calls[p].op = "list" /\ calls[p].pc = "done" /\ kiroToken = Null) =>
            \A i \in 1..Len(calls[p].result) : ~IsActive(files[calls[p].result[i]])


\* the broker's answer to the refresh of refreshAccountToken,
\* checkAccountHealth or refreshAllAccounts is handled by call p in this step
RefreshAnswerHandled(p) ==
    /\ calls[p].pc \in {"rf_wait", "ch_wait", "ra_wait"}
    /\ calls'[p].pc # calls[p].pc

\* the fields of an account record that a refresh has no business with
KeptFields(td) ==
    IF td = Null THEN Null
    ELSE <<td.accountName, td.clientId, td.clientSecret, td.machineId>>

\* C37: the step in which refreshAccountToken, checkAccountHealth or
\* refreshAllAccounts handles the broker's answer leaves the Kiro token, the
\* machine-id file and the machine id of every account record as they are,
\* and changes no record but the refreshed one, and of it only the token
\* fields.
C37_RefreshFrame ==
    [][\A p \in DOMAIN calls :
          RefreshAnswerHandled(p) =>
              /\ kiroToken' = kiroToken
              /\ machineIdFile' = machineIdFile
              /\ \A f \in Files :
                    /\ KeptFields(files'[f]) = KeptFields(files[f])
                    /\ f # calls[p].path => files'[f] = files[f]]_vars


\* call p returns a failure from refreshAccountToken or checkAccountHealth
\* in this step
RefreshOrHealthFails(p) ==
    /\ calls'[p].op \in {"refresh", "health"}
    /\ calls'[p].pc = "done"
    /\ (calls[p].pc # "done" \/ calls[p].id # calls'[p].id)
    /\ calls'[p].exit \in {"notFound", "missingCredentials", "refreshFailed"}

\* C38: the step in which refreshAccountToken or checkAccountHealth returns a
\* failure (account not found, missing credentials, or any error of the
\* broker) leaves every account record exactly as it is.
C38_FailedRefreshChangesNothing ==
    [][\A p \in DOMAIN calls : RefreshOrHealthFails(p) => files' = files]_vars

\* a refresh the broker rejected has returned, and the record is the one the
\* call had loaded
C38_Witness ==
    \E p \in DOMAIN calls :
        /\ calls[p].op = "refresh"
        /\ calls[p].pc = "done"
        /\ calls[p].exit = "refreshFailed"
        /\ calls[p].result.error = "InvalidGrantException"
        /\ files[calls[p].path] = calls[p].tokenData


\* the secrets of a token file
SecretsOf(td) == <<td.accessToken, td.refreshToken, td.clientSecret>>

\* the secrets SecretStorage holds for an account (none: three absent ones)
StoredSecretsOf(name) ==
    IF secrets[name] = Null THEN <<Null, Null, Null>>
    ELSE <<secrets[name].accessToken, secrets[name].refreshToken, secrets[name].clientSecret>>

\* C39: after migrateToSecretStorage, every accessToken, refreshToken and
\* clientSecret a token file held before the call is still in the file or in
\* SecretStorage, whatever the setting was; and after a
\* migrateFromSecretStorage that follows it, every file holds the secrets it
\* held before the migration.
C39_MigrationKeepsSecrets ==
    \A p \in DOMAIN calls :
        /\ (calls[p].op = "migrateTo" /\ calls[p].pc = "done") =>
              \A f \in Files : \A i \in 1..3 :
                  LET orig == SecretsOf(calls[p].preFiles[f])[i]
                  IN  orig # Null =>
                        \/ SecretsOf(files[f])[i] = orig
                        \/ StoredSecretsOf(files[f].accountName)[i] = orig
        /\ (calls[p].op = "migrateFrom" /\ calls[p].pc = "done" /\ calls[p].origFiles # Null) =>
              \A f \in Files : SecretsOf(files[f]) = SecretsOf(calls[p].origFiles[f])

====
